---- MODULE Spec2Model ----
(***************************************************************************)
(* imagingDB: ingestion of microscope acquisitions into frame objects      *)
(* (S3 / local storage) plus frame metadata (relational store), and the    *)
(* reassembly of stored frames into an image stack.                        *)
(*                                                                         *)
(* Spec         the upload pipeline of cli/data_uploader.py followed by    *)
(*              the frame query and get_stack_from_meta                    *)
(* SpecStorage  the storage classes called directly                        *)
(* SpecDB       insert_frames / insert_file and the frame query of both    *)
(*              database modules, called directly                          *)
(* SpecQuery    filtered frame queries and get_stack_from_meta of          *)
(*              data_storage.py                                            *)
(* SpecNames    _get_imname called on rows of frame metadata               *)
(* SpecIds      validate_id of both cli_utils modules called on ids        *)
(* SpecParse    parse_sms_name and the folder splitter that uses it          *)
(* SpecTifId    the tag-less stack splitter on stacks of every shape         *)
(* SpecSessions two ingestions of one serial, each in its own session        *)
(* SpecUploaders two uploaders writing the same frames side by side          *)
(* SpecFetch    get_stack_from_meta with the fetches ending in any order     *)
(* SpecPositions the position filter of the ome.tif splitter                 *)
(***************************************************************************)
EXTENDS Integers, Sequences, FiniteSets, TLC

VARIABLES
    s3,          \* the S3 bucket: key -> stored bytes
    localDirs,   \* local storage: directories that exist under the mount point
    localFiles,  \* local storage: path -> stored image
    db,          \* committed rows of data_set, frames_global, file_global, frames
    pc,          \* position of upload_data_and_update_db within the current csv row
    run,         \* the csv row / args / splitter state of the current upload
    last,        \* the last call: its arguments, what it saw, what it raised/printed
    nops         \* number of calls started so far

vars == <<s3, localDirs, localFiles, db, pc, run, last, nops>>

-----------------------------------------------------------------------------
(* Bounds of the model *)

\* number of direct calls of the storage / database classes in a behaviour
MaxOps == 3

\* number of csv rows uploaded in a behaviour
MaxRows == 2

\* number of parse_sms_name calls that share one channel_names list
MaxParse == 3
MaxDim == 3

\* Python's None (also pandas' NaN in an unfilled dataframe cell)
None == "None"

\* dataset serials, as the sequence of the characters that distinguish them:
\* <<1>> is a string prefix of <<1, 2>>
Serials == {<<1>>, <<1, 2>>}

FILE_FOLDER_NAME == "raw_files"
FRAME_FOLDER_NAME == "raw_frames"
FRAME_FILE_FORMAT == ".png"

\* FileSplitter.__init__ default
int2str_len == 3

-----------------------------------------------------------------------------
(* Generic helpers *)

IsPrefix(p, s) == Len(p) <= Len(s) /\ SubSeq(s, 1, Len(p)) = p

Range(f) == {f[i] : i \in DOMAIN f}

\* "is None" (or NaN), for a value of any type
IsNone(v) == ToString(v) = ToString(None)

\* np.unique: the sorted distinct values, as an ascending sequence
RECURSIVE SortedSeq(_)
SortedSeq(S) ==
    IF S = {} THEN << >>
    ELSE LET m == CHOOSE x \in S : \A y \in S : x <= y
         IN <<m>> \o SortedSeq(S \ {m})

\* np.where(unique == v)[0][0]: 0-based position of v in the sorted sequence
RankIn(v, sorted) == (CHOOSE i \in 1..Len(sorted) : sorted[i] = v) - 1

(* str(int) and str.zfill *)
Digits == <<"0", "1", "2", "3", "4", "5", "6", "7", "8", "9">>

RECURSIVE Str(_)
Str(n) == IF IsNone(n) THEN "None"
          ELSE IF n < 10 THEN Digits[n + 1]
          ELSE Str(n \div 10) \o Digits[(n % 10) + 1]

RECURSIVE zfill(_, _)
zfill(s, width) == IF Len(s) >= width THEN s ELSE zfill("0" \o s, width)

\* str.split(sep) for a separator of one character
RECURSIVE split(_, _)
split(s, sep) ==
    LET at == {i \in 1..Len(s) : SubSeq(s, i, i) = sep} IN
    IF at = {} THEN <<s>>
    ELSE LET i == CHOOSE i \in at : \A j \in at : i <= j
         IN <<SubSeq(s, 1, i - 1)>> \o split(SubSeq(s, i + 1, Len(s)), sep)

IsDigit(ch) == \E d \in 1..10 : Digits[d] = ch

RECURSIVE DecimalValue(_)
DecimalValue(s) ==
    IF Len(s) = 0 THEN 0
    ELSE DecimalValue(SubSeq(s, 1, Len(s) - 1)) * 10
           + (CHOOSE d \in 1..10 : Digits[d] = SubSeq(s, Len(s), Len(s))) - 1

\* int(s) of a string of letters and digits: the value, or a ValueError
int(s) ==
    IF Len(s) > 0 /\ \A i \in 1..Len(s) : IsDigit(SubSeq(s, i, i))
    THEN [raised |-> "none", value |-> DecimalValue(s)]
    ELSE [raised |-> "ValueError", value |-> 0]

\* sep.join(fields)
RECURSIVE str_join(_, _)
str_join(sep, fields) ==
    IF Len(fields) = 0 THEN ""
    ELSE IF Len(fields) = 1 THEN fields[1]
    ELSE fields[1] \o sep \o str_join(sep, Tail(fields))

\* list.index(x) of an element of the list, 0-based
index(list, x) == (CHOOSE i \in 1..Len(list) : list[i] = x /\ \A j \in 1..(i - 1) : list[j] # x) - 1

-----------------------------------------------------------------------------
(* utils/image_utils.py *)

\* np.squeeze on a shape
squeeze(shape) == SelectSeq(shape, LAMBDA d : d # 1)

\* an image is [shape, data]; the bytes are the encoded (squeezed) image
serialize_im(im, file_format) ==
    [format |-> file_format, shape |-> squeeze(im.shape), data |-> im.data]

deserialize_im(byte_string) ==
    [shape |-> byte_string.shape, data |-> byte_string.data]

atleast_3d(im) ==
    [shape |-> IF Len(im.shape) = 2 THEN im.shape \o <<1>> ELSE im.shape,
     data |-> im.data]

-----------------------------------------------------------------------------
(* images/file_splitter.py: the frame file name *)

\* (a variant that writes the indices without padding)
get_imname_unpadded(meta_row, file_format) ==
    "im_c" \o Str(meta_row.channel_idx) \o "_z" \o Str(meta_row.slice_idx)
        \o "_t" \o Str(meta_row.time_idx) \o "_p" \o Str(meta_row.pos_idx)
        \o file_format

\* FileSplitter._get_imname
get_imname(meta_row, file_format) ==
    "im_c" \o zfill(Str(meta_row.channel_idx), int2str_len)
        \o "_z" \o zfill(Str(meta_row.slice_idx), int2str_len)
        \o "_t" \o zfill(Str(meta_row.time_idx), int2str_len)
        \o "_p" \o zfill(Str(meta_row.pos_idx), int2str_len)
        \o file_format

-----------------------------------------------------------------------------
(* filestorage/s3_storage.py: the S3 bucket is a map key -> bytes.          *)
(* A key "<folder>/<serial>/<file name>" is kept as <<folder, serial, name>> *)

Put(store, key, bytes) ==
    [k \in DOMAIN store \cup {key} |-> IF k = key THEN bytes ELSE store[k]]

\* "/".join([self.s3_dir, file_name])
s3_key(dir, file_name) == <<dir[1], dir[2], file_name>>

\* list_objects_v2(Prefix=s3_dir)['KeyCount']: keys whose string starts with
\* "<folder>/<serial>"; the serial of another dataset may extend this one
KeyCountDir(store, dir) ==
    Cardinality({k \in DOMAIN store : k[1] = dir[1] /\ IsPrefix(dir[2], k[2])})

\* list_objects_v2(Prefix=key)['KeyCount']: after "<folder>/<serial>/" the
\* frame names all end in the file format, so none is a proper prefix of another
KeyCountKey(store, key) == Cardinality({k \in DOMAIN store : k = key})

s3_assert_unique_id(store, dir) ==
    [store |-> store,
     raised |-> IF KeyCountDir(store, dir) = 0 THEN "none" ELSE "AssertionError",
     printed |-> {}]

\* (a variant that writes without looking for the key)
s3_upload_im_overwrites(store, dir, file_name, im, file_format, put_fails) ==
    IF put_fails
    THEN [store |-> store, raised |-> "ClientError", printed |-> {}]
    ELSE [store |-> Put(store, s3_key(dir, file_name),
                        serialize_im(im, file_format)),
          raised |-> "none", printed |-> {}]

\* DataStorage.upload_im; put_fails: put_object raises (backend unreachable)
s3_upload_im(store, dir, file_name, im, file_format, put_fails) ==
    LET key == s3_key(dir, file_name) IN
    IF KeyCountKey(store, key) = 0
    THEN IF put_fails
         THEN [store |-> store, raised |-> "ClientError", printed |-> {}]
         ELSE [store |-> Put(store, key, serialize_im(im, file_format)),
               raised |-> "none", printed |-> {}]
    ELSE [store |-> store, raised |-> "none",
          printed |-> {<<"Key already exists, next", key>>}]

\* DataStorage.upload_frames; file_names are distinct; failing: the keys whose
\* put_object raises inside upload_serialized.  The futures of ex.submit are
\* dropped, so what a worker raises never reaches the caller.
s3_upload_frames(store, dir, file_names, im_stack, file_format, failing) ==
    IF Len(file_names) # Len(im_stack)
    THEN [store |-> store, raised |-> "AssertionError", printed |-> {}]
    ELSE IF \E i \in 1..Len(file_names) : file_names[i] = None
    THEN [store |-> store, raised |-> "TypeError", printed |-> {}]
    ELSE
    LET idx == 1..Len(file_names)
        key(i) == s3_key(dir, file_names[i])
        fresh == {i \in idx : KeyCountKey(store, key(i)) = 0}
        sent == {i \in fresh : key(i) \notin failing}
    IN [store |-> [k \in DOMAIN store \cup {key(i) : i \in sent} |->
                     IF \E i \in sent : key(i) = k
                     THEN serialize_im(
                            im_stack[CHOOSE i \in sent : key(i) = k], file_format)
                     ELSE store[k]],
        raised |-> "none",
        printed |-> {<<"Key already exists, next.", key(i)>> : i \in idx \ fresh}]

\* DataStorage.upload_file: a file copied as is under its base name
s3_upload_file(store, dir, file_no_path, bytes, put_fails) ==
    IF s3_assert_unique_id(store, dir).raised # "none"
    THEN [store |-> store, raised |-> "AssertionError", printed |-> {}]
    ELSE IF put_fails
    THEN [store |-> store, raised |-> "S3UploadFailedError", printed |-> {}]
    ELSE [store |-> Put(store, s3_key(dir, file_no_path), bytes),
          raised |-> "none", printed |-> {}]

\* DataStorage.get_im; a missing key makes get_object raise
s3_get_im(store, dir, file_name) ==
    LET key == s3_key(dir, file_name) IN
    IF file_name # None /\ key \in DOMAIN store
    THEN [im |-> deserialize_im(store[key]), raised |-> "none"]
    ELSE [im |-> None, raised |-> "ClientError"]

-----------------------------------------------------------------------------
(* filestorage/local_storage.py: directories and files under the mount point *)

\* os.path.join(self.mount_point, self.storage_dir, file_name)
local_path(dir, file_name) == <<dir[1], dir[2], file_name>>

\* cv2.imwrite: writes (and overwrites) the file when its directory exists and
\* the disk accepts it; otherwise returns False without raising
imwrite(dirs, files, path, im, write_fails) ==
    IF <<path[1], path[2]>> \in dirs /\ ~write_fails
    THEN Put(files, path, [format |-> FRAME_FILE_FORMAT, shape |-> im.shape,
                           data |-> im.data])
    ELSE files

\* (a variant that checks for stored files instead of the directory)
local_assert_unique_id_files(dirs, files, dir) ==
    [store |-> files,
     raised |-> IF \E p \in DOMAIN files : <<p[1], p[2]>> = dir
                THEN "AssertionError" ELSE "none",
     printed |-> {}]

local_assert_unique_id(dirs, files, dir) ==
    [store |-> files,
     raised |-> IF dir \in dirs THEN "AssertionError" ELSE "none",
     printed |-> {}]

\* LocalStorage.upload_im_tuple and LocalStorage.upload_im
local_upload_im_tuple(dirs, files, path, im, write_fails) ==
    [store |-> imwrite(dirs, files, path, im, write_fails),
     raised |-> "none", printed |-> {}]

local_upload_im(dirs, files, path, im, write_fails) ==
    [store |-> imwrite(dirs, files, path, im, write_fails),
     raised |-> "none", printed |-> {}]

\* LocalStorage.upload_frames; failing: the paths whose write fails.  The
\* iterator returned by ex.map is never consumed.
local_upload_frames(dirs, files, dir, file_names, im_stack, failing) ==
    IF Len(file_names) # Len(im_stack)
    THEN [store |-> files, raised |-> "AssertionError", printed |-> {}]
    ELSE IF \E i \in 1..Len(file_names) : file_names[i] = None
    THEN [store |-> files, raised |-> "TypeError", printed |-> {}]
    ELSE
    LET idx == 1..Len(file_names)
        path(i) == local_path(dir, file_names[i])
        sent == {i \in idx : dir \in dirs /\ path(i) \notin failing}
    IN [store |-> [p \in DOMAIN files \cup {path(i) : i \in sent} |->
                     IF \E i \in sent : path(i) = p
                     THEN LET im == im_stack[CHOOSE i \in sent : path(i) = p]
                          IN [format |-> FRAME_FILE_FORMAT, shape |-> im.shape,
                              data |-> im.data]
                     ELSE files[p]],
        raised |-> "none",
        printed |-> {}]

-----------------------------------------------------------------------------
(* database/: the tables are sets of rows; a session collects pending rows  *)
(* that session_scope commits or rolls back.  The rows carry the columns    *)
(* the insert and query code uses.                                          *)

NextId(rows) ==
    IF rows = {} THEN 1
    ELSE (CHOOSE m \in {r.id : r \in rows} : \A r \in rows : r.id <= m) + 1

NoPending == [data_set |-> {}, frames_global |-> {}, file_global |-> {},
              frames |-> {}]

\* the parent_dataset argument: the serial of a dataset (a str), another
\* str, Python's None, or a float NaN (an empty csv cell)
ParentSerial(s) == [kind |-> "serial", serial |-> s, str |-> ""]
ParentStr(s) == [kind |-> "str", serial |-> << >>, str |-> s]
ParentNoneStr == ParentStr("None")
ParentPyNone == [kind |-> "None", serial |-> << >>, str |-> ""]
ParentNaN == [kind |-> "nan", serial |-> << >>, str |-> ""]

\* str.lower() on the letters of the parent strings of the model
UpperCase == <<"N", "O", "E", "I">>
LowerCase == <<"n", "o", "e", "i">>
RECURSIVE lower(_)
lower(s) ==
    IF Len(s) = 0 THEN ""
    ELSE LET ch == SubSeq(s, 1, 1) IN
         (IF \E i \in 1..Len(UpperCase) : UpperCase[i] = ch
          THEN LowerCase[CHOOSE i \in 1..Len(UpperCase) : UpperCase[i] = ch]
          ELSE ch) \o lower(SubSeq(s, 2, Len(s)))

\* parent_dataset.lower() == "none" or len(parent_dataset) == 0
is_none_str(parent_dataset) ==
    /\ parent_dataset.kind = "str"
    /\ lower(parent_dataset.str) = "none" \/ Len(parent_dataset.str) = 0

\* session.query(DataSet).filter(DataSet.dataset_serial == parent_dataset):
\* a str that is not a serial of the model names no dataset
query_parent(store, parent_dataset) ==
    {d \in store.data_set : /\ parent_dataset.kind = "serial"
                            /\ d.dataset_serial = parent_dataset.serial}

\* rows of the tables
DataSet(id, dataset_serial, frames, parent_id) ==
    [id |-> id, dataset_serial |-> dataset_serial, frames |-> frames,
     parent_id |-> parent_id]

FramesGlobal(id, global_meta, dataset_id) ==
    [id |-> id, dataset_id |-> dataset_id,
     storage_dir |-> global_meta.storage_dir,
     nbr_frames |-> global_meta.nbr_frames,
     im_width |-> global_meta.im_width,
     im_height |-> global_meta.im_height,
     nbr_slices |-> global_meta.nbr_slices,
     nbr_channels |-> global_meta.nbr_channels,
     nbr_timepoints |-> global_meta.nbr_timepoints,
     nbr_positions |-> global_meta.nbr_positions,
     im_colors |-> global_meta.im_colors,
     bit_depth |-> global_meta.bit_depth]

Frames(id, meta_row, metadata_json, image_id) ==
    [id |-> id, image_id |-> image_id,
     channel_idx |-> meta_row.channel_idx, slice_idx |-> meta_row.slice_idx,
     time_idx |-> meta_row.time_idx, pos_idx |-> meta_row.pos_idx,
     channel_name |-> meta_row.channel_name, file_name |-> meta_row.file_name,
     metadata_json |-> metadata_json]

FileGlobal(id, storage_dir, file_name, dataset_id) ==
    [id |-> id, dataset_id |-> dataset_id, storage_dir |-> storage_dir,
     file_name |-> file_name]

\* DatabaseOperations._get_parent of db_operations.py
get_parent(store, parent_dataset) ==
    IF \/ parent_dataset.kind = "None"
       \/ is_none_str(parent_dataset)
       \/ parent_dataset.kind = "nan"
    THEN [parent_key |-> None, raised |-> "none"]
    ELSE LET found == query_parent(store, parent_dataset)
         IN IF Cardinality(found) = 1
            THEN [parent_key |-> (CHOOSE d \in found : TRUE).id,
                  raised |-> "none"]
            ELSE [parent_key |-> None, raised |-> "ValueError"]

\* DatabaseOperations._get_parent of db_session.py: np.isnan(None) raises
session_get_parent(store, parent_dataset) ==
    IF parent_dataset.kind = "None"
    THEN [parent_key |-> None, raised |-> "TypeError"]
    ELSE IF is_none_str(parent_dataset) \/ parent_dataset.kind = "nan"
    THEN [parent_key |-> None, raised |-> "none"]
    ELSE LET found == query_parent(store, parent_dataset)
         IN IF Cardinality(found) = 1
            THEN [parent_key |-> (CHOOSE d \in found : TRUE).id,
                  raised |-> "none"]
            ELSE [parent_key |-> None, raised |-> "NoResultFound"]

\* The body of insert_frames inside the session: the rows it has added to the
\* session when it returns or raises.  session.add(new_frame) also adds the
\* FramesGlobal and the DataSet the frame refers to.
insert_frames_body(store, datasets, dataset_serial, frames_meta, frames_json_meta, global_meta, parent) ==
    IF Cardinality(datasets) # 0
    THEN [pending |-> NoPending, raised |-> "AssertionError"]
    ELSE IF parent.raised # "none"
    THEN [pending |-> NoPending, raised |-> parent.raised]
    ELSE
    LET did == NextId(store.data_set)
        gid == NextId(store.frames_global)
        fid == NextId(store.frames)
        n == Len(frames_meta)
        added == IF Len(frames_json_meta) < n THEN Len(frames_json_meta) ELSE n
        new_dataset == DataSet(did, dataset_serial, TRUE, parent.parent_key)
        new_frames_global == FramesGlobal(gid, global_meta, did)
        new_frames == {Frames(fid + i - 1, frames_meta[i], frames_json_meta[i],
                              gid) : i \in 1..added}
    IN IF added < n
       THEN [pending |-> IF added = 0 THEN NoPending
                         ELSE [data_set |-> {new_dataset},
                               frames_global |-> {new_frames_global},
                               file_global |-> {}, frames |-> new_frames],
             raised |-> "IndexError"]
       ELSE [pending |-> [data_set |-> {new_dataset},
                          frames_global |-> {new_frames_global},
                          file_global |-> {}, frames |-> new_frames],
             raised |-> "none"]

\* (a variant that inserts without looking for the serial first)
insert_frames_unchecked(store, dataset_serial, frames_meta, frames_json_meta, global_meta, parent_dataset) ==
    insert_frames_body(store, {}, dataset_serial, frames_meta,
                       frames_json_meta, global_meta,
                       get_parent(store, parent_dataset))

\* DatabaseOperations.insert_frames of db_operations.py
insert_frames(store, dataset_serial, frames_meta, frames_json_meta, global_meta, parent_dataset) ==
    insert_frames_body(store,
                       {d \in store.data_set :
                          d.dataset_serial = dataset_serial},
                       dataset_serial, frames_meta, frames_json_meta,
                       global_meta, get_parent(store, parent_dataset))

\* (a variant that marks the dataset as split into frames)
insert_file_as_frames(store, dataset_serial, storage_dir, file_name, parent) ==
    IF \E d \in store.data_set : d.dataset_serial = dataset_serial
    THEN [pending |-> NoPending, raised |-> "AssertionError"]
    ELSE IF parent.raised # "none"
    THEN [pending |-> NoPending, raised |-> parent.raised]
    ELSE
    [pending |-> [data_set |->
                     {DataSet(NextId(store.data_set), dataset_serial, TRUE,
                              parent.parent_key)},
                  frames_global |-> {},
                  file_global |->
                     {FileGlobal(NextId(store.file_global), storage_dir,
                                 file_name, NextId(store.data_set))},
                  frames |-> {}],
     raised |-> "none"]

\* The body of insert_file inside the session
insert_file_body(store, dataset_serial, storage_dir, file_name, parent) ==
    IF \E d \in store.data_set : d.dataset_serial = dataset_serial
    THEN [pending |-> NoPending, raised |-> "AssertionError"]
    ELSE IF parent.raised # "none"
    THEN [pending |-> NoPending, raised |-> parent.raised]
    ELSE
    [pending |-> [data_set |->
                     {DataSet(NextId(store.data_set), dataset_serial, FALSE,
                              parent.parent_key)},
                  frames_global |-> {},
                  file_global |->
                     {FileGlobal(NextId(store.file_global), storage_dir,
                                 file_name, NextId(store.data_set))},
                  frames |-> {}],
     raised |-> "none"]

\* DatabaseOperations.insert_file of db_operations.py
insert_file(store, dataset_serial, storage_dir, file_name, parent_dataset) ==
    insert_file_body(store, dataset_serial, storage_dir, file_name,
                     get_parent(store, parent_dataset))

Commit(store, pending) ==
    [data_set |-> store.data_set \cup pending.data_set,
     frames_global |-> store.frames_global \cup pending.frames_global,
     file_global |-> store.file_global \cup pending.file_global,
     frames |-> store.frames \cup pending.frames]

\* (a variant that commits whatever the session holds, raise or not)
session_scope_always_commit(store, body, commit_fails) ==
    [db |-> Commit(store, body.pending),
     raised |-> IF body.raised # "none" THEN "Exception" ELSE "none"]

\* session_scope of db_operations.py: commit when the body returns, rollback
\* and raise Exception(e) when the body or the commit raises
session_scope(store, body, commit_fails) ==
    IF body.raised = "none" /\ ~commit_fails
    THEN [db |-> Commit(store, body.pending), raised |-> "none"]
    ELSE [db |-> store, raised |-> "Exception"]

\* session_scope of db_session.py: the same, re-raising what was raised
session_session_scope(store, body, commit_fails) ==
    IF body.raised = "none" /\ ~commit_fails
    THEN [db |-> Commit(store, body.pending), raised |-> "none"]
    ELSE [db |-> store,
          raised |-> IF body.raised # "none" THEN body.raised
                     ELSE "OperationalError"]

-----------------------------------------------------------------------------
(* database/: the frame query.  A filter is absent ('all' / None) or a       *)
(* collection of values, of the type the module documents (a tuple for      *)
(* db_session.py, a list for db_operations.py).                              *)

All == [all |-> TRUE, vals |-> {}]
Only(vals) == [all |-> FALSE, vals |-> vals]

\* session.query(Frames).join(FramesGlobal).join(DataSet).filter(serial)
frames_query(store, dataset_serial) ==
    {f \in store.frames :
       \E g \in store.frames_global, d \in store.data_set :
          /\ f.image_id = g.id
          /\ g.dataset_id = d.id
          /\ d.dataset_serial = dataset_serial}

\* DatabaseOperations._slice_frames of db_session.py; the branches for times
\* and pos look at the type of slices
slice_frames(frames, pos, times, channels, slices) ==
    LET by_channel == IF channels.all THEN frames
                      ELSE {f \in frames : f.channel_name \in channels.vals}
        by_slice == IF slices.all THEN by_channel
                    ELSE {f \in by_channel : f.slice_idx \in slices.vals}
        by_time == IF times.all THEN by_slice
                   ELSE {f \in by_slice : f.time_idx \in times.vals}
        by_pos == IF pos.all THEN by_time
                  ELSE {f \in by_time : f.pos_idx \in pos.vals}
    IN IF ~times.all /\ slices.all
       THEN [rows |-> {}, raised |-> "ValueError"]
       ELSE IF ~pos.all /\ slices.all
       THEN [rows |-> {}, raised |-> "ValueError"]
       ELSE IF Cardinality(by_pos) > 0
       THEN [rows |-> by_pos, raised |-> "none"]
       ELSE [rows |-> {}, raised |-> "AssertionError"]

\* (a variant without the assertion on the number of rows)
get_frames_subset_no_assert(frames, positions, times, channels, slices) ==
    [rows |-> {f \in frames :
                 /\ channels.all \/ f.channel_name \in channels.vals
                 /\ slices.all \/ f.slice_idx \in slices.vals
                 /\ times.all \/ f.time_idx \in times.vals
                 /\ positions.all \/ f.pos_idx \in positions.vals},
     raised |-> "none"]

\* DatabaseOperations._get_frames_subset of db_operations.py
get_frames_subset(frames, positions, times, channels, slices) ==
    LET by_channel == IF channels.all THEN frames
                      ELSE {f \in frames : f.channel_name \in channels.vals}
        by_slice == IF slices.all THEN by_channel
                    ELSE {f \in by_channel : f.slice_idx \in slices.vals}
        by_time == IF times.all THEN by_slice
                   ELSE {f \in by_slice : f.time_idx \in times.vals}
        by_pos == IF positions.all THEN by_time
                  ELSE {f \in by_time : f.pos_idx \in positions.vals}
    IN IF Cardinality(by_pos) > 0
       THEN [rows |-> by_pos, raised |-> "none"]
       ELSE [rows |-> {}, raised |-> "AssertionError"]

\* _get_meta_from_frames / _get_global_meta: the FramesGlobal of a frame
get_global_meta(store, frame) ==
    LET g == CHOOSE g \in store.frames_global : g.id = frame.image_id IN
    [storage_dir |-> g.storage_dir, nbr_frames |-> g.nbr_frames,
     im_width |-> g.im_width, im_height |-> g.im_height,
     nbr_slices |-> g.nbr_slices, nbr_channels |-> g.nbr_channels,
     nbr_timepoints |-> g.nbr_timepoints, nbr_positions |-> g.nbr_positions,
     im_colors |-> g.im_colors, bit_depth |-> g.bit_depth]

\* meta_utils.validate_global_meta (the storage directory is the key s3_dir
\* of the older files)
validate_global_meta(global_meta) ==
    LET keys == {"storage_dir", "nbr_frames", "im_width", "im_height",
                 "nbr_slices", "nbr_channels", "im_colors", "nbr_timepoints",
                 "nbr_positions", "bit_depth"}
    IN IF \A key \in keys :
            key \in DOMAIN global_meta /\ ~IsNone(global_meta[key])
       THEN "none" ELSE "AssertionError"

\* get_frames_meta of either module, given its filter function's result and
\* the rows whose element [0] gives the global metadata
get_frames_meta(store, dataset_serial, sliced, first) ==
    LET datasets == {d \in store.data_set : d.dataset_serial = dataset_serial}
        global_meta == get_global_meta(store, CHOOSE f \in first : TRUE)
    IN IF Cardinality(datasets) # 1
       THEN [global_meta |-> None, rows |-> {}, raised |-> "NoResultFound"]
       ELSE IF ~(CHOOSE d \in datasets : TRUE).frames
       THEN [global_meta |-> None, rows |-> {}, raised |-> "AssertionError"]
       ELSE IF sliced.raised # "none"
       THEN [global_meta |-> None, rows |-> {}, raised |-> sliced.raised]
       ELSE IF first = {}
       THEN [global_meta |-> None, rows |-> {}, raised |-> "IndexError"]
       ELSE IF validate_global_meta(global_meta) # "none"
       THEN [global_meta |-> None, rows |-> {}, raised |-> "AssertionError"]
       ELSE [global_meta |-> global_meta, rows |-> sliced.rows,
             raised |-> "none"]

\* the characters of file names, in the order of their codes
Chars == <<".", "0", "1", "2", "3", "4", "5", "6", "7", "8", "9", "N", "_",
           "c", "e", "g", "i", "m", "n", "o", "p", "t", "z">>

Ord(ch) == CHOOSE i \in 1..Len(Chars) : Chars[i] = ch

\* a < b for strings, character by character
RECURSIVE StrLess(_, _)
StrLess(a, b) ==
    IF Len(b) = 0 THEN FALSE
    ELSE IF Len(a) = 0 THEN TRUE
    ELSE IF SubSeq(a, 1, 1) # SubSeq(b, 1, 1)
    THEN Ord(SubSeq(a, 1, 1)) < Ord(SubSeq(b, 1, 1))
    ELSE StrLess(SubSeq(a, 2, Len(a)), SubSeq(b, 2, Len(b)))

\* (a variant that keeps the order of insertion)
RECURSIVE order_by_id(_)
order_by_id(rows) ==
    IF rows = {} THEN << >>
    ELSE LET first == CHOOSE r \in rows : \A q \in rows : r.id <= q.id
         IN <<first>> \o order_by_id(rows \ {first})

\* .order_by(Frames.file_name): the rows as a sequence ascending in file
\* name (rows of equal name in the order of their ids)
RECURSIVE order_by_file_name(_)
order_by_file_name(rows) ==
    IF rows = {} THEN << >>
    ELSE LET first == CHOOSE r \in rows : \A q \in rows :
                         \/ StrLess(r.file_name, q.file_name)
                         \/ r.file_name = q.file_name /\ r.id <= q.id
         IN <<first>> \o order_by_file_name(rows \ {first})

\* the orders in which a query without order_by may return a set of rows
Orderings(rows) ==
    {o \in [1..Cardinality(rows) -> rows] :
       \A i, j \in 1..Cardinality(rows) : i # j => o[i] # o[j]}

\* get_frames_meta of db_session.py
session_get_frames_meta(store, dataset_serial, pos, times, channels, slices) ==
    LET sliced == slice_frames(frames_query(store, dataset_serial),
                               pos, times, channels, slices)
    IN get_frames_meta(store, dataset_serial, sliced, sliced.rows)

\* get_frames_meta of db_operations.py
ops_get_frames_meta(store, dataset_serial, positions, times, channels, slices) ==
    LET res == get_frames_meta(store, dataset_serial,
                   get_frames_subset(frames_query(store, dataset_serial),
                                     positions, times, channels, slices),
                   frames_query(store, dataset_serial))
    IN [global_meta |-> res.global_meta, rows |-> res.rows,
        frames_meta |-> order_by_file_name(res.rows), raised |-> res.raised]

-----------------------------------------------------------------------------
(* images/: acquisitions and the splitters *)

\* A tif_id acquisition is a multi-page tiff whose ImageDescription gives the
\* numbers of channels, slices, frames (timepoints) and positions; a
\* tif_folder acquisition is a folder of single-page tiffs whose names give
\* the four indices of each.  Frames are 2 x 3 grayscale; the pixels of a
\* page are named by the acquisition and the page number.
AcqTifId(name) ==
    [name |-> name, kind |-> "tif_id", height |-> 2, width |-> 3,
     nbr_pages |-> 4, nbr_channels |-> 2, nbr_slices |-> 1,
     nbr_timepoints |-> 2, nbr_positions |-> 1]

AcqFolder ==
    [name |-> "F", kind |-> "tif_folder", height |-> 2, width |-> 3,
     nbr_pages |-> 2,
     files |-> <<[channel_idx |-> 0, slice_idx |-> 0, time_idx |-> 5,
                  pos_idx |-> 0],
                 [channel_idx |-> 2, slice_idx |-> 0, time_idx |-> 5,
                  pos_idx |-> 0]>>]

\* a tiff with more pages than its ImageDescription accounts for
AcqTifIdExtraPages == [AcqTifId("B") EXCEPT !.nbr_timepoints = 1]

\* a folder of two files whose names hold the same four integers (such as
\* a_0_0_5_0.tif and b_0_0_5_0.tif): the parser reads the integers only
AcqFolderSameIndices ==
    [name |-> "G", kind |-> "tif_folder", height |-> 2, width |-> 3,
     nbr_pages |-> 2,
     files |-> <<[channel_idx |-> 0, slice_idx |-> 0, time_idx |-> 5,
                  pos_idx |-> 0],
                 [channel_idx |-> 0, slice_idx |-> 0, time_idx |-> 5,
                  pos_idx |-> 0]>>]

Acquisitions ==
    {AcqTifId("A"), AcqTifIdExtraPages, AcqFolder, AcqFolderSameIndices}

\* the workers of the process pool run side by side: of the files that go to
\* one key, the bytes of either may be the ones that stay
PoolOutcomes == {"lowest", "highest"}

\* page.asarray() of page i (0-based)
Page(acq, i) == [shape |-> <<acq.height, acq.width>>, data |-> <<acq.name, i>>]

\* meta_utils.make_dataframe row before it is filled
NanRow == [channel_idx |-> None, slice_idx |-> None, time_idx |-> None,
           pos_idx |-> None, channel_name |-> None, file_name |-> None]

\* the loop of parse_sms_name over the last three parts of the name: a part
\* of four characters that begins with t, p or z gives that index
RECURSIVE parse_tokens(_, _)
parse_tokens(meta_row, tokens) ==
    IF Len(tokens) = 0 THEN [meta_row |-> meta_row, raised |-> "none"]
    ELSE
    LET s == Head(tokens)
        first == SubSeq(s, 1, 1)
        col == IF first = "t" THEN "time_idx"
               ELSE IF first = "p" THEN "pos_idx" ELSE "slice_idx"
        value == int(SubSeq(s, 2, Len(s)))
    IN IF first \in {"t", "p", "z"} /\ Len(s) = 4
       THEN IF value.raised # "none"
            THEN [meta_row |-> meta_row, raised |-> value.raised]
            ELSE parse_tokens([meta_row EXCEPT ![col] = value.value],
                              Tail(tokens))
       ELSE parse_tokens(meta_row, Tail(tokens))

\* (a variant that numbers a channel by the length of the list)
parse_sms_name_by_length(file_name, meta_row, channel_names) ==
    LET file_str == SubSeq(file_name, 1, Len(file_name) - 4)
        str_split == Tail(split(file_str, "_"))
        n == Len(str_split)
        channel_name == IF n > 4
                        THEN str_join("_", SubSeq(str_split, 1, n - 3))
                        ELSE str_split[1]
        names == IF \E i \in 1..Len(channel_names) :
                       channel_names[i] = channel_name
                 THEN channel_names
                 ELSE Append(channel_names, channel_name)
        row == [meta_row EXCEPT !.channel_name = channel_name,
                                !.channel_idx = Len(names) - 1]
        res == parse_tokens(row, SubSeq(str_split,
                                        IF n > 3 THEN n - 2 ELSE 1, n))
    IN IF n = 0
       THEN [meta_row |-> meta_row, channel_names |-> channel_names,
             raised |-> "IndexError"]
       ELSE [meta_row |-> res.meta_row, channel_names |-> names,
             raised |-> res.raised]

\* aux_utils.parse_sms_name: the row and the list after the call (both are
\* changed in place), and what it raised.  File names carry no path.
parse_sms_name(file_name, meta_row, channel_names) ==
    LET file_str == SubSeq(file_name, 1, Len(file_name) - 4)
        str_split == Tail(split(file_str, "_"))
        n == Len(str_split)
        channel_name == IF n > 4
                        THEN str_join("_", SubSeq(str_split, 1, n - 3))
                        ELSE str_split[1]
        names == IF \E i \in 1..Len(channel_names) :
                       channel_names[i] = channel_name
                 THEN channel_names
                 ELSE Append(channel_names, channel_name)
        row == [meta_row EXCEPT !.channel_name = channel_name,
                                !.channel_idx = index(names, channel_name)]
        res == parse_tokens(row, SubSeq(str_split,
                                        IF n > 3 THEN n - 2 ELSE 1, n))
    IN IF n = 0
       THEN [meta_row |-> meta_row, channel_names |-> channel_names,
             raised |-> "IndexError"]
       ELSE [meta_row |-> res.meta_row, channel_names |-> names,
             raised |-> res.raised]

\* len(np.unique(frames_meta[col])): the distinct values of a column; np.unique
\* keeps every NaN of an unfilled row apart
len_unique(frames_meta, col) ==
    LET filled == {i \in DOMAIN frames_meta : ~IsNone(frames_meta[i][col])}
    IN Cardinality({frames_meta[i][col] : i \in filled})
         + Cardinality(DOMAIN frames_meta \ filled)

\* (a variant that counts the rows, not their distinct values)
set_global_meta_counts_rows(dir, acq, frames_meta, nbr_frames) ==
    [storage_dir |-> dir, nbr_frames |-> nbr_frames,
     im_height |-> acq.height, im_width |-> acq.width, im_colors |-> 1,
     bit_depth |-> "uint16",
     nbr_slices |-> nbr_frames, nbr_channels |-> nbr_frames,
     nbr_timepoints |-> nbr_frames, nbr_positions |-> nbr_frames]

\* FileSplitter.set_global_meta
set_global_meta(dir, acq, frames_meta, nbr_frames) ==
    [storage_dir |-> dir, nbr_frames |-> nbr_frames,
     im_height |-> acq.height, im_width |-> acq.width, im_colors |-> 1,
     bit_depth |-> "uint16",
     nbr_slices |-> len_unique(frames_meta, "slice_idx"),
     nbr_channels |-> len_unique(frames_meta, "channel_idx"),
     nbr_timepoints |-> len_unique(frames_meta, "time_idx"),
     nbr_positions |-> len_unique(frames_meta, "pos_idx")]

\* range(n)
range(n) == [i \in 1..n |-> i - 1]

RECURSIVE Concat(_)
Concat(seqs) == IF Len(seqs) = 0 THEN << >> ELSE Head(seqs) \o Concat(Tail(seqs))

\* list(itertools.product(*ranges)): nested loops, the first range the
\* outermost
RECURSIVE product(_)
product(ranges) ==
    IF Len(ranges) = 0 THEN << << >> >>
    ELSE LET rest == product(Tail(ranges)) IN
         Concat([i \in DOMAIN Head(ranges) |->
                   [j \in DOMAIN rest |-> <<Head(ranges)[i]>> \o rest[j]]])

\* (a variant in which the time index runs fastest)
tif_id_indices_time_fastest(acq, i) ==
    [time_idx |-> i % acq.nbr_timepoints,
     channel_idx |-> (i \div acq.nbr_timepoints) % acq.nbr_channels,
     slice_idx |-> (i \div (acq.nbr_timepoints * acq.nbr_channels))
                      % acq.nbr_slices,
     pos_idx |-> i \div (acq.nbr_timepoints * acq.nbr_channels
                           * acq.nbr_slices)]

\* element i (0-based) of itertools.product(range(nbr_timepoints),
\* range(nbr_positions), range(nbr_slices), range(nbr_channels))
tif_id_indices(acq, i) ==
    LET variable_iterator == product(<<range(acq.nbr_timepoints),
                                       range(acq.nbr_positions),
                                       range(acq.nbr_slices),
                                       range(acq.nbr_channels)>>)
        v == variable_iterator[i + 1]
    IN [time_idx |-> v[1], pos_idx |-> v[2], slice_idx |-> v[3],
        channel_idx |-> v[4]]

\* TifIDSplitter.get_frames_and_metadata, upload_stack included
tif_id_get_frames_and_metadata(store, dir, acq, failing) ==
    LET nbr_frames == acq.nbr_pages
        nbr_iter == acq.nbr_timepoints * acq.nbr_positions * acq.nbr_slices
                       * acq.nbr_channels
        row(i) == IF i < nbr_iter
                  THEN LET idx == tif_id_indices(acq, i) IN
                       [channel_idx |-> idx.channel_idx,
                        slice_idx |-> idx.slice_idx,
                        time_idx |-> idx.time_idx, pos_idx |-> idx.pos_idx,
                        channel_name |-> None,
                        file_name |-> get_imname(idx, FRAME_FILE_FORMAT)]
                  ELSE NanRow
        frames_meta == [i \in 1..nbr_frames |-> row(i - 1)]
        im_stack == [i \in 1..nbr_frames |-> atleast_3d(Page(acq, i - 1))]
        file_names == [i \in 1..nbr_frames |-> frames_meta[i].file_name]
        up == s3_upload_frames(store, dir, file_names, im_stack,
                               FRAME_FILE_FORMAT, failing)
    IN IF nbr_iter > nbr_frames
       THEN [store |-> store, raised |-> "IndexError", frames_meta |-> << >>,
             frames_json |-> << >>, global_meta |-> None, attempted |-> {}]
       ELSE [store |-> up.store, raised |-> up.raised,
             frames_meta |-> frames_meta,
             frames_json |-> [i \in 1..nbr_iter |-> "json"],
             global_meta |-> set_global_meta(dir, acq, frames_meta, nbr_frames),
             attempted |-> IF up.raised # "none" THEN {}
                           ELSE {s3_key(dir, file_names[i]) :
                                   i \in 1..nbr_frames}
                                \ DOMAIN store]

\* TifFolderSplitter.get_frames_and_metadata with parse_idx_from_name (the
\* channel name is the channel index as a string): every file goes through
\* serialize_upload in the pool; iterating the results re-raises the first
\* failure, before frames_json and the global metadata are complete
tif_folder_get_frames_and_metadata(store, dir, acq, failing, lands) ==
    LET nbr_frames == Len(acq.files)
        frames_meta ==
            [i \in 1..nbr_frames |->
                [channel_idx |-> acq.files[i].channel_idx,
                 slice_idx |-> acq.files[i].slice_idx,
                 time_idx |-> acq.files[i].time_idx,
                 pos_idx |-> acq.files[i].pos_idx,
                 channel_name |-> Str(acq.files[i].channel_idx),
                 file_name |-> get_imname(acq.files[i], FRAME_FILE_FORMAT)]]
        up(i) == s3_upload_im(store, dir, frames_meta[i].file_name,
                              Page(acq, i - 1), FRAME_FILE_FORMAT,
                              s3_key(dir, frames_meta[i].file_name) \in failing)
        ok == {i \in 1..nbr_frames : up(i).raised = "none"}
        keys == {s3_key(dir, frames_meta[i].file_name) : i \in 1..nbr_frames}
    IN [store |-> [k \in DOMAIN store \cup
                          {s3_key(dir, frames_meta[i].file_name) : i \in ok} |->
                     IF \A i \in ok : s3_key(dir, frames_meta[i].file_name) # k
                     THEN store[k]
                     ELSE LET to_k == {i \in ok :
                                         s3_key(dir, frames_meta[i].file_name)
                                            = k}
                          IN up(CHOOSE i \in to_k : \A j \in to_k :
                                  IF lands = "lowest" THEN i <= j ELSE i >= j
                               ).store[k]],
        raised |-> IF ok = 1..nbr_frames THEN "none" ELSE "ClientError",
        frames_meta |-> frames_meta,
        frames_json |-> [i \in 1..nbr_frames |-> "json"],
        global_meta |-> set_global_meta(dir, acq, frames_meta, nbr_frames),
        attempted |-> keys \ DOMAIN store]

\* np.unique sorts the column.  A row written from a dict that holds None
\* keeps the None or takes NaN, as the pandas version has it: a sort that
\* has to compare a None with another value raises, a NaN sorts
unique_raises(frames_meta, col, none_kept) ==
    /\ none_kept
    /\ Len(frames_meta) > 1
    /\ \E i \in DOMAIN frames_meta : IsNone(frames_meta[i][col])

\* TifFolderSplitter._set_frame_meta with parse_func = parse_sms_name: an
\* index that the parser did not find stays None, and str(None) goes into
\* the file name
sms_set_frame_meta(file_name, channel_names) ==
    LET res == parse_sms_name(file_name, NanRow, channel_names) IN
    [meta_row |-> [res.meta_row EXCEPT
                     !.file_name = get_imname(res.meta_row, FRAME_FILE_FORMAT)],
     channel_names |-> res.channel_names, raised |-> res.raised]

\* TifFolderSplitter.get_frames_and_metadata with filename_parser =
\* 'parse_sms_name' after its first loop has filled frames_meta: every file
\* is uploaded, then the global metadata are set.  An exception leaves the
\* caller without frame rows and global metadata.
sms_folder_get_frames_and_metadata(store, dir, acq, frames_meta, failing, none_kept) ==
    LET nbr_frames == Len(acq.files)
        up(i) == s3_upload_im(store, dir, frames_meta[i].file_name,
                              Page(acq, i - 1), FRAME_FILE_FORMAT,
                              s3_key(dir, frames_meta[i].file_name) \in failing)
        ok == {i \in 1..nbr_frames : up(i).raised = "none"}
        key(i) == s3_key(dir, frames_meta[i].file_name)
        uploaded == [k \in DOMAIN store \cup {key(i) : i \in ok} |->
                       IF \A i \in ok : key(i) # k THEN store[k]
                       ELSE up(CHOOSE i \in ok : key(i) = k).store[k]]
        nothing(after, raised) ==
            [store |-> after, raised |-> raised, frames_meta |-> << >>,
             frames_json |-> << >>, global_meta |-> None]
    IN IF ok # 1..nbr_frames THEN nothing(uploaded, "ClientError")
       ELSE IF \E col \in {"slice_idx", "channel_idx", "time_idx", "pos_idx"} :
                 unique_raises(frames_meta, col, none_kept)
       THEN nothing(uploaded, "TypeError")
       ELSE [store |-> uploaded, raised |-> "none",
             frames_meta |-> frames_meta,
             frames_json |-> [i \in 1..nbr_frames |-> "json"],
             global_meta |-> set_global_meta(dir, acq, frames_meta, nbr_frames)]

get_frames_and_metadata(store, dir, acq, failing, lands) ==
    IF acq.kind = "tif_id"
    THEN tif_id_get_frames_and_metadata(store, dir, acq, failing)
    ELSE tif_folder_get_frames_and_metadata(store, dir, acq, failing, lands)

-----------------------------------------------------------------------------
(* The storage classes called directly *)

EmptyStore == [k \in {} |-> None]
EmptyDB == [data_set |-> {}, frames_global |-> {}, file_global |-> {},
            frames |-> {}]
NoRun == [kind |-> "none"]
NoCall == [op |-> "none", raised |-> "none"]

Dirs == {<<FRAME_FOLDER_NAME, s>> : s \in Serials}

\* two frames of one acquisition and their names
TestIms == {[shape |-> <<2, 3, 1>>, data |-> d] : d \in {"a", "b"}}
TestNames ==
    [c \in 1..2 |-> get_imname([channel_idx |-> c - 1, slice_idx |-> 0,
                                time_idx |-> 0, pos_idx |-> 0],
                               FRAME_FILE_FORMAT)]
\* at most one write of a batch fails
FailSets(dir) == {{}} \cup {{s3_key(dir, TestNames[i])} : i \in DOMAIN TestNames}

StorageCall(op, bk, dir, names, ims, failing, before, res) ==
    [op |-> op, backend |-> bk, dir |-> dir, names |-> names, ims |-> ims,
     failing |-> failing, before |-> before, dirsBefore |-> localDirs,
     raised |-> res.raised, printed |-> res.printed]

Init ==
    /\ s3 = EmptyStore
    /\ localDirs = {}
    /\ localFiles = EmptyStore
    /\ db = EmptyDB
    /\ pc = "idle"
    /\ run = NoRun
    /\ last = NoCall
    /\ nops = 0

S3AssertUniqueId ==
    \E dir \in Dirs :
        LET res == s3_assert_unique_id(s3, dir) IN
        /\ nops < MaxOps
        /\ s3' = res.store
        /\ last' = StorageCall("assert_unique_id", "s3", dir, << >>, << >>, {},
                               s3, res)
        /\ nops' = nops + 1
        /\ UNCHANGED <<localDirs, localFiles, db, pc, run>>

S3UploadIm ==
    \E dir \in Dirs, i \in DOMAIN TestNames, im \in TestIms,
       put_fails \in BOOLEAN :
        LET res == s3_upload_im(s3, dir, TestNames[i], im, FRAME_FILE_FORMAT,
                                put_fails) IN
        /\ nops < MaxOps
        /\ s3' = res.store
        /\ last' = StorageCall("upload_im", "s3", dir, <<TestNames[i]>>, <<im>>,
                               IF put_fails THEN {s3_key(dir, TestNames[i])}
                               ELSE {}, s3, res)
        /\ nops' = nops + 1
        /\ UNCHANGED <<localDirs, localFiles, db, pc, run>>

S3UploadFrames ==
    \E dir \in Dirs, ims \in [DOMAIN TestNames -> TestIms] :
      \E failing \in FailSets(dir) :
        LET res == s3_upload_frames(s3, dir, TestNames, ims, FRAME_FILE_FORMAT,
                                    failing) IN
        /\ nops < MaxOps
        /\ s3' = res.store
        /\ last' = StorageCall("upload_frames", "s3", dir, TestNames, ims,
                               failing, s3, res)
        /\ nops' = nops + 1
        /\ UNCHANGED <<localDirs, localFiles, db, pc, run>>

\* the environment creates the dataset directory (LocalStorage itself never
\* does): tempdir.makedir(storage_dir) in the tests' setUp
MakeDir ==
    \E dir \in Dirs :
        /\ nops < MaxOps
        /\ dir \notin localDirs
        /\ localDirs' = localDirs \cup {dir}
        /\ last' = [op |-> "makedir", backend |-> "local", dir |-> dir,
                    raised |-> "none"]
        /\ nops' = nops + 1
        /\ UNCHANGED <<s3, localFiles, db, pc, run>>

LocalAssertUniqueId ==
    \E dir \in Dirs :
        LET res == local_assert_unique_id(localDirs, localFiles, dir) IN
        /\ nops < MaxOps
        /\ localFiles' = res.store
        /\ last' = StorageCall("assert_unique_id", "local", dir, << >>, << >>,
                               {}, localFiles, res)
        /\ nops' = nops + 1
        /\ UNCHANGED <<s3, localDirs, db, pc, run>>

LocalUploadImTuple ==
    \E dir \in Dirs, i \in DOMAIN TestNames, im \in TestIms,
       write_fails \in BOOLEAN :
        LET path == local_path(dir, TestNames[i])
            res == local_upload_im_tuple(localDirs, localFiles, path, im,
                                         write_fails) IN
        /\ nops < MaxOps
        /\ localFiles' = res.store
        /\ last' = StorageCall("upload_im_tuple", "local", dir, <<TestNames[i]>>,
                               <<im>>, IF write_fails THEN {path} ELSE {},
                               localFiles, res)
        /\ nops' = nops + 1
        /\ UNCHANGED <<s3, localDirs, db, pc, run>>

LocalUploadIm ==
    \E dir \in Dirs, i \in DOMAIN TestNames, im \in TestIms,
       write_fails \in BOOLEAN :
        LET path == local_path(dir, TestNames[i])
            res == local_upload_im(localDirs, localFiles, path, im,
                                   write_fails) IN
        /\ nops < MaxOps
        /\ localFiles' = res.store
        /\ last' = StorageCall("upload_im", "local", dir, <<TestNames[i]>>,
                               <<im>>, IF write_fails THEN {path} ELSE {},
                               localFiles, res)
        /\ nops' = nops + 1
        /\ UNCHANGED <<s3, localDirs, db, pc, run>>

LocalUploadFrames ==
    \E dir \in Dirs, ims \in [DOMAIN TestNames -> TestIms] :
      \E failing \in FailSets(dir) :
        LET res == local_upload_frames(localDirs, localFiles, dir, TestNames,
                                       ims, failing) IN
        /\ nops < MaxOps
        /\ localFiles' = res.store
        /\ last' = StorageCall("upload_frames", "local", dir, TestNames, ims,
                               failing, localFiles, res)
        /\ nops' = nops + 1
        /\ UNCHANGED <<s3, localDirs, db, pc, run>>

NextStorage ==
    \/ S3AssertUniqueId
    \/ S3UploadIm
    \/ S3UploadFrames
    \/ MakeDir
    \/ LocalAssertUniqueId
    \/ LocalUploadImTuple
    \/ LocalUploadIm
    \/ LocalUploadFrames

SpecStorage == Init /\ [][NextStorage]_vars

-----------------------------------------------------------------------------
(* Properties of the storage classes (SpecStorage) *)

\* what the backend of the last call stores now
StoreNow == IF last.backend = "s3" THEN s3 ELSE localFiles

IsUpload == last.op \in {"upload_im", "upload_im_tuple", "upload_frames"}

\* the objects stored under a dataset directory
ObjectsUnder(store, dir) ==
    {k \in DOMAIN store : k[1] = dir[1] /\ IsPrefix(dir[2], k[2])}

\* C5: uploading a frame to a path that already holds an object never raises,
\* leaves the object as it was and reports that the frame was skipped, with
\* the S3 and with the local backend.
C5_ExistingFrameSkipped ==
    IsUpload =>
        \A i \in DOMAIN last.names :
            LET key == s3_key(last.dir, last.names[i]) IN
            key \in DOMAIN last.before =>
                /\ last.raised = "none"
                /\ StoreNow[key] = last.before[key]
                /\ \E msg \in last.printed : msg[2] = key

\* the writes of the last upload_frames that were started and failed
FailedWrites ==
    IF last.backend = "s3"
    THEN {k \in last.failing : k \notin DOMAIN last.before}
    ELSE last.failing \cup
         (IF last.dir \in last.dirsBefore THEN {}
          ELSE {local_path(last.dir, last.names[i]) : i \in DOMAIN last.names})

\* C6: when the write of a frame fails inside the pool of upload_frames,
\* upload_frames raises.
C6_FailedWriteRaises ==
    (last.op = "upload_frames" /\ FailedWrites # {}) => last.raised # "none"

\* C8 as stated: assert_unique_id raises exactly when at least one object is
\* stored under the dataset's prefix, and changes nothing.
C8_RaisesIffObjectStored ==
    last.op = "assert_unique_id" =>
        /\ last.raised = "AssertionError"
             <=> ObjectsUnder(last.before, last.dir) # {}
        /\ StoreNow = last.before
        /\ localDirs = last.dirsBefore

\* C8: assert_unique_id raises exactly when the dataset's location is taken:
\* with S3 when a key starts with the prefix string, with local storage when
\* the dataset directory exists (with or without files); it changes nothing.
C8_RaisesIffLocationTaken ==
    last.op = "assert_unique_id" =>
        /\ last.raised = "AssertionError"
             <=> IF last.backend = "s3"
                 THEN ObjectsUnder(last.before, last.dir) # {}
                 ELSE last.dir \in last.dirsBefore
        /\ last.raised \in {"AssertionError", "none"}
        /\ StoreNow = last.before
        /\ localDirs = last.dirsBefore

\* assert_unique_id raised on a local directory that holds no file
C8_Witness ==
    /\ last.op = "assert_unique_id"
    /\ last.backend = "local"
    /\ last.raised = "AssertionError"
    /\ ObjectsUnder(last.before, last.dir) = {}

-----------------------------------------------------------------------------
(* insert_frames / insert_file called directly, each in its session_scope *)

ChannelNames == <<"brightfield", "phase">>

\* frames_meta of two channels and two timepoints at one slice and position
MetaRow(c, z, tt, p) ==
    [channel_idx |-> c, slice_idx |-> z, time_idx |-> tt, pos_idx |-> p,
     channel_name |-> ChannelNames[c + 1],
     file_name |-> get_imname([channel_idx |-> c, slice_idx |-> z,
                               time_idx |-> tt, pos_idx |-> p],
                              FRAME_FILE_FORMAT)]

TestFramesMeta ==
    <<MetaRow(0, 0, 0, 0), MetaRow(1, 0, 0, 0), MetaRow(0, 0, 1, 0),
      MetaRow(1, 0, 1, 0)>>

TestGlobalMeta(dir) ==
    [storage_dir |-> dir, nbr_frames |-> 4, im_width |-> 3, im_height |-> 2,
     nbr_slices |-> 1, nbr_channels |-> 2, nbr_timepoints |-> 2,
     nbr_positions |-> 1, im_colors |-> 1, bit_depth |-> "uint16"]

\* complete global metadata, or global metadata without a bit depth
TestGlobalMetas(dir) ==
    {TestGlobalMeta(dir), [TestGlobalMeta(dir) EXCEPT !.bit_depth = None]}

\* frames_json_meta: one entry per frame, or too few of them
TestJsons == {<<"json", "json", "json", "json">>, <<"json">>, << >>}

ParentArgs ==
    {ParentNoneStr, ParentStr("nOnE"), ParentStr(""), ParentStr("nine"),
     ParentPyNone, ParentNaN}
    \cup {ParentSerial(s) : s \in Serials}

DbCall(op, serial, parent, n_json, body, res) ==
    [op |-> op, serial |-> serial, parent |-> parent, n_json |-> n_json,
     before |-> db, pending |-> body.pending, body_raised |-> body.raised,
     raised |-> res.raised]

InsertFrames ==
    \E serial \in Serials, parent \in ParentArgs, jsons \in TestJsons,
       commit_fails \in BOOLEAN :
      \E global_meta \in TestGlobalMetas(<<FRAME_FOLDER_NAME, serial>>) :
        LET body == insert_frames(db, serial, TestFramesMeta, jsons,
                                  global_meta, parent)
            res == session_scope(db, body, commit_fails) IN
        /\ nops < MaxOps
        /\ db' = res.db
        /\ last' = DbCall("insert_frames", serial, parent, Len(jsons), body, res)
        /\ nops' = nops + 1
        /\ UNCHANGED <<s3, localDirs, localFiles, pc, run>>

InsertFile ==
    \E serial \in Serials, parent \in ParentArgs, commit_fails \in BOOLEAN :
        LET body == insert_file(db, serial, <<FILE_FOLDER_NAME, serial>>,
                                "file.tif", parent)
            res == session_scope(db, body, commit_fails) IN
        /\ nops < MaxOps
        /\ db' = res.db
        /\ last' = DbCall("insert_file", serial, parent, 0, body, res)
        /\ nops' = nops + 1
        /\ UNCHANGED <<s3, localDirs, localFiles, pc, run>>

\* insert_file of db_session.py in its session_scope
SessionInsertFile ==
    \E serial \in Serials, parent \in ParentArgs, commit_fails \in BOOLEAN :
        LET body == insert_file_body(db, serial, <<FILE_FOLDER_NAME, serial>>,
                                     "file.tif", session_get_parent(db, parent))
            res == session_session_scope(db, body, commit_fails) IN
        /\ nops < MaxOps
        /\ db' = res.db
        /\ last' = DbCall("session_insert_file", serial, parent, 0, body, res)
        /\ nops' = nops + 1
        /\ UNCHANGED <<s3, localDirs, localFiles, pc, run>>

\* the filters tried on each dimension
TestFilters ==
    [pos : {All, Only({0})}, times : {All, Only({1})},
     channels : {All, Only({"phase"})},
     slices : {All, Only({0}), Only({1})}]

\* get_frames_meta of db_session.py (module "session", whose query has no
\* order) or of db_operations.py (module "ops")
QueryFrames ==
    \E serial \in Serials, module \in {"session", "ops"}, f \in TestFilters :
        LET res == IF module = "session"
                   THEN session_get_frames_meta(db, serial, f.pos, f.times,
                                                f.channels, f.slices)
                   ELSE ops_get_frames_meta(db, serial, f.pos, f.times,
                                            f.channels, f.slices)
            orders == IF res.raised # "none" THEN {<< >>}
                      ELSE IF module = "ops" THEN {res.frames_meta}
                      ELSE Orderings(res.rows) IN
        /\ nops < MaxOps
        /\ \E frames_meta \in orders :
              last' = [op |-> "get_frames_meta", serial |-> serial,
                       module |-> module, filters |-> f, before |-> db,
                       rows |-> res.rows, frames_meta |-> frames_meta,
                       global_meta |-> res.global_meta, raised |-> res.raised]
        /\ nops' = nops + 1
        /\ UNCHANGED <<s3, localDirs, localFiles, db, pc, run>>

NextDB == InsertFrames \/ InsertFile \/ SessionInsertFile \/ QueryFrames

SpecDB == Init /\ [][NextDB]_vars

-----------------------------------------------------------------------------
(* Properties of the inserts (SpecDB) *)

IsInsert == last.op \in {"insert_frames", "insert_file"}

DatasetsOf(store, serial) ==
    {d \in store.data_set : d.dataset_serial = serial}

\* C3: whatever inserts were called, and whether they returned or raised, the
\* store holds at most one Dataset row per serial; an insert for a serial
\* that is already there raises and adds no row.
C3_OneDatasetPerSerial ==
    /\ \A s \in Serials : Cardinality(DatasetsOf(db, s)) <= 1
    /\ (IsInsert /\ DatasetsOf(last.before, last.serial) # {})
           => (last.raised # "none" /\ db = last.before)

\* an insert was called for a serial that is already in the store
C3_Witness ==
    /\ IsInsert
    /\ DatasetsOf(last.before, last.serial) # {}
    /\ last.raised # "none"

\* C4: an insert that raises leaves no row of the call in the store; an
\* insert that returns has committed the Dataset row with all its children.
C4_InsertAtomic ==
    IsInsert =>
        IF last.raised # "none"
        THEN db = last.before
        ELSE \E d \in db.data_set \ last.before.data_set :
               /\ d.dataset_serial = last.serial
               /\ db.data_set = last.before.data_set \cup {d}
               /\ IF last.op = "insert_frames"
                  THEN \E g \in db.frames_global \ last.before.frames_global :
                         /\ g.dataset_id = d.id
                         /\ db.frames_global =
                              last.before.frames_global \cup {g}
                         /\ LET new == db.frames \ last.before.frames IN
                            /\ \A f \in new : f.image_id = g.id
                            /\ {f.file_name : f \in new}
                                 = {TestFramesMeta[i].file_name :
                                      i \in DOMAIN TestFramesMeta}
                            /\ Cardinality(new) = Len(TestFramesMeta)
                         /\ db.file_global = last.before.file_global
                  ELSE \E g \in db.file_global \ last.before.file_global :
                         /\ g.dataset_id = d.id
                         /\ db.file_global = last.before.file_global \cup {g}
                         /\ db.frames_global = last.before.frames_global
                         /\ db.frames = last.before.frames

\* insert_frames raised after it had added a Frame row to the session
C4_Witness ==
    /\ last.op = "insert_frames"
    /\ last.body_raised = "IndexError"
    /\ last.pending.frames # {}
    /\ last.raised # "none"
    /\ db = last.before

\* C7: every Dataset row either is marked as frames and has exactly one
\* FramesGlobal and no FileGlobal, or is not and has exactly one FileGlobal,
\* no FramesGlobal and no Frame row.
C7_ExactlyOneChild ==
    \A d \in db.data_set :
        LET fg == {g \in db.frames_global : g.dataset_id = d.id}
            fl == {g \in db.file_global : g.dataset_id = d.id}
            fr == {f \in db.frames : \E g \in fg : f.image_id = g.id}
        IN IF d.frames
           THEN Cardinality(fg) = 1 /\ fl = {}
           ELSE Cardinality(fl) = 1 /\ fg = {} /\ fr = {}

\* the store holds a dataset of frames and a dataset kept as a file
C7_Witness ==
    /\ \E d \in db.data_set : d.frames
    /\ \E d \in db.data_set : ~d.frames
    /\ db.frames # {}

\* the frame rows of a dataset that a set of filters asks for
Matching(store, serial, f) ==
    {r \in frames_query(store, serial) :
       /\ f.channels.all \/ r.channel_name \in f.channels.vals
       /\ f.slices.all \/ r.slice_idx \in f.slices.vals
       /\ f.times.all \/ r.time_idx \in f.times.vals
       /\ f.pos.all \/ r.pos_idx \in f.pos.vals}

\* C10: with any combination of filters on channels, slices, times and
\* positions, each absent or a collection of values, the frame query of a
\* dataset of frames returns exactly the rows that match every given filter
\* (and fails as an empty result when none does).
C10_QueryReturnsMatching ==
    (/\ last.op = "get_frames_meta"
     /\ \E d \in DatasetsOf(last.before, last.serial) : d.frames)
        => IF Matching(last.before, last.serial, last.filters) = {}
           THEN last.raised = "AssertionError"
           ELSE /\ last.raised = "none"
                /\ last.rows = Matching(last.before, last.serial, last.filters)

\* C14: a frame query of a dataset of frames whose filters match none of its
\* frames raises, in either module; no query returns an empty frame table.
C14_EmptyResultRaises ==
    last.op = "get_frames_meta" =>
        /\ (/\ \E d \in DatasetsOf(last.before, last.serial) : d.frames
            /\ Matching(last.before, last.serial, last.filters) = {})
              => last.raised # "none"
        /\ last.raised = "none" => last.rows # {}

\* a slice that the dataset does not have is asked of db_operations.py, with
\* no other filter
C14_Witness ==
    /\ last.op = "get_frames_meta"
    /\ last.module = "ops"
    /\ frames_query(last.before, last.serial) # {}
    /\ last.filters = [pos |-> All, times |-> All, channels |-> All,
                       slices |-> Only({1})]
    /\ last.raised = "AssertionError"

\* the columns of a frame row that the caller of insert_frames gave
MetaOf(f) ==
    [channel_idx |-> f.channel_idx, slice_idx |-> f.slice_idx,
     time_idx |-> f.time_idx, pos_idx |-> f.pos_idx,
     channel_name |-> f.channel_name, file_name |-> f.file_name]

\* file names with three-digit indices ascend as (channel, slice, time,
\* position) does
NameBefore(a, b) ==
    \/ a.channel_idx < b.channel_idx
    \/ a.channel_idx = b.channel_idx /\ a.slice_idx < b.slice_idx
    \/ a.channel_idx = b.channel_idx /\ a.slice_idx = b.slice_idx
         /\ a.time_idx < b.time_idx
    \/ a.channel_idx = b.channel_idx /\ a.slice_idx = b.slice_idx
         /\ a.time_idx = b.time_idx /\ a.pos_idx < b.pos_idx

\* the unfiltered query of db_operations.py on a dataset that insert_frames
\* stored with all required global fields
StoredAndQueried ==
    /\ last.op = "get_frames_meta"
    /\ last.module = "ops"
    /\ last.filters = [pos |-> All, times |-> All, channels |-> All,
                       slices |-> All]
    /\ \E d \in DatasetsOf(last.before, last.serial) :
          /\ d.frames
          /\ \E g \in last.before.frames_global :
                /\ g.dataset_id = d.id
                /\ ~IsNone(g.bit_depth)

NullParents ==
    {ParentPyNone, ParentNaN, ParentStr(""), ParentStr("None"),
     ParentStr("nOnE")}

\* what _get_parent raises in either module
ParentErrors == {"ValueError", "TypeError", "NoResultFound"}

\* C22: an insert for a new serial whose parent is None, NaN, empty or
\* 'none' in any letter case resolves the parent without an error and stores
\* no parent; a parent serial of a dataset in the store stores that dataset's
\* id; any other parent makes the insert raise and store nothing.  Every
\* parent_id in the store that is not null is the id of a Dataset row.
C22_ParentResolved ==
    /\ \A d \in db.data_set :
          ~IsNone(d.parent_id) => \E e \in db.data_set : e.id = d.parent_id
    /\ (/\ last.op \in {"insert_frames", "insert_file", "session_insert_file"}
        /\ DatasetsOf(last.before, last.serial) = {}) =>
          LET new == db.data_set \ last.before.data_set
              named == IF last.parent.kind = "serial"
                       THEN DatasetsOf(last.before, last.parent.serial)
                       ELSE {}
          IN IF last.parent \in NullParents
             THEN /\ last.body_raised \notin ParentErrors
                  /\ \A d \in new : IsNone(d.parent_id)
             ELSE IF named # {}
             THEN /\ last.body_raised \notin ParentErrors
                  /\ \A d \in new : \E e \in named : d.parent_id = e.id
             ELSE last.raised # "none" /\ db = last.before

-----------------------------------------------------------------------------
(* filestorage/s3_storage.py: reassembly of the frames of a query *)

dim_order == <<"X", "Y", "G", "Z", "C", "T", "P">>

\* DataStorage.get_stack_from_meta: the stack is its squeezed shape, the kept
\* dimensions and, per (slice, channel, time, position) coordinate, the
\* pixels of the plane ("zeros" where no frame was written)
get_stack_from_meta(store, global_meta, frames_meta) ==
    LET rows == Range(frames_meta)
        unique_slices == SortedSeq({r.slice_idx : r \in rows})
        unique_channels == SortedSeq({r.channel_idx : r \in rows})
        unique_times == SortedSeq({r.time_idx : r \in rows})
        unique_pos == SortedSeq({r.pos_idx : r \in rows})
        stack_shape == <<global_meta.im_height, global_meta.im_width,
                         global_meta.im_colors, Len(unique_slices),
                         Len(unique_channels), Len(unique_times),
                         Len(unique_pos)>>
        im_list == [i \in DOMAIN frames_meta |->
                      s3_get_im(store, global_meta.storage_dir,
                                frames_meta[i].file_name)]
        coord(r) == <<RankIn(r.slice_idx, unique_slices),
                      RankIn(r.channel_idx, unique_channels),
                      RankIn(r.time_idx, unique_times),
                      RankIn(r.pos_idx, unique_pos)>>
        fits(i) == LET im == atleast_3d(im_list[i].im) IN
                   /\ Len(im.shape) = 3
                   /\ im.shape[1] = stack_shape[1]
                   /\ im.shape[2] = stack_shape[2]
                   /\ im.shape[3] \in {1, stack_shape[3]}
        coords == (0..(Len(unique_slices) - 1))
                    \X (0..(Len(unique_channels) - 1))
                    \X (0..(Len(unique_times) - 1))
                    \X (0..(Len(unique_pos) - 1))
        written(c) == {i \in DOMAIN frames_meta : coord(frames_meta[i]) = c}
    IN IF \E i \in DOMAIN frames_meta : im_list[i].raised # "none"
       THEN [raised |-> "ClientError", shape |-> << >>, dim_str |-> << >>,
             planes |-> << >>]
       ELSE IF \E i \in DOMAIN frames_meta : ~fits(i)
       THEN [raised |-> "ValueError", shape |-> << >>, dim_str |-> << >>,
             planes |-> << >>]
       ELSE [raised |-> "none",
             shape |-> squeeze(stack_shape),
             dim_str |-> [i \in 1..Len(squeeze(stack_shape)) |->
                            dim_order[CHOOSE k \in 1..Len(stack_shape) :
                               /\ stack_shape[k] # 1
                               /\ Cardinality({j \in 1..k :
                                                 stack_shape[j] # 1}) = i]],
             planes |-> [c \in coords |->
                           IF written(c) = {} THEN "zeros"
                           ELSE im_list[CHOOSE i \in written(c) :
                                   \A j \in written(c) : j <= i].im.data]]

-----------------------------------------------------------------------------
(* filestorage/data_storage.py: the same reassembly in three methods.  The  *)
(* stack is kept as its shape and, per (slice, channel, time, position)      *)
(* slot, the pixels written there ("zeros" where nothing was written).       *)

\* (a variant that sizes the stack from the dataset's global counts)
make_stack_from_meta_global_counts(global_meta, frames_meta) ==
    LET rows == Range(frames_meta) IN
    [unique_ids |-> [slices |-> SortedSeq({r.slice_idx : r \in rows}),
                     channels |-> SortedSeq({r.channel_idx : r \in rows}),
                     times |-> SortedSeq({r.time_idx : r \in rows}),
                     pos |-> SortedSeq({r.pos_idx : r \in rows})],
     stack_shape |-> <<global_meta.im_height, global_meta.im_width,
                       global_meta.im_colors, global_meta.nbr_slices,
                       global_meta.nbr_channels, global_meta.nbr_timepoints,
                       global_meta.nbr_positions>>]

\* DataStorage.make_stack_from_meta: the shape of the zero stack and the
\* sorted distinct indices of the rows
make_stack_from_meta(global_meta, frames_meta) ==
    LET rows == Range(frames_meta)
        unique_ids == [slices |-> SortedSeq({r.slice_idx : r \in rows}),
                       channels |-> SortedSeq({r.channel_idx : r \in rows}),
                       times |-> SortedSeq({r.time_idx : r \in rows}),
                       pos |-> SortedSeq({r.pos_idx : r \in rows})]
    IN [unique_ids |-> unique_ids,
        stack_shape |-> <<global_meta.im_height, global_meta.im_width,
                          global_meta.im_colors, Len(unique_ids.slices),
                          Len(unique_ids.channels), Len(unique_ids.times),
                          Len(unique_ids.pos)>>]

\* ''.join(x for x in dim_order if dim_order.index(x) not in single_dims),
\* from label k on
RECURSIVE join_dims(_, _)
join_dims(k, single_dims) ==
    IF k > Len(dim_order) THEN ""
    ELSE (IF (k - 1) \in single_dims THEN "" ELSE dim_order[k])
            \o join_dims(k + 1, single_dims)

\* (a variant that returns every label)
squeeze_stack_all_labels(stack_shape) ==
    [shape |-> squeeze(stack_shape), dim_str |-> join_dims(1, {})]

\* DataStorage.squeeze_stack, on the shape of the stack
squeeze_stack(stack_shape) ==
    LET single_dims == {k - 1 : k \in {j \in 1..Len(stack_shape) :
                                         stack_shape[j] = 1}}
    IN [shape |-> squeeze(stack_shape), dim_str |-> join_dims(1, single_dims)]

\* (a variant that uses the index itself as the coordinate)
slot_of_index(unique, idx) == idx

\* np.where(unique == idx)[0][0] of the fill loop
slot_of(unique, idx) == RankIn(idx, unique)

\* DataStorage.get_stack_from_meta, get_im reading the objects of
\* storage_dir; a slot outside the stack is an IndexError
data_get_stack_from_meta(store, storage_dir, global_meta, frames_meta) ==
    LET made == make_stack_from_meta(global_meta, frames_meta)
        unique_ids == made.unique_ids
        stack_shape == made.stack_shape
        im_list == [i \in DOMAIN frames_meta |->
                      s3_get_im(store, storage_dir, frames_meta[i].file_name)]
        coord(r) == <<slot_of(unique_ids.slices, r.slice_idx),
                      slot_of(unique_ids.channels, r.channel_idx),
                      slot_of(unique_ids.times, r.time_idx),
                      slot_of(unique_ids.pos, r.pos_idx)>>
        fits(i) == LET im == atleast_3d(im_list[i].im) IN
                   /\ Len(im.shape) = 3
                   /\ im.shape[1] = stack_shape[1]
                   /\ im.shape[2] = stack_shape[2]
                   /\ im.shape[3] \in {1, stack_shape[3]}
        coords == (0..(stack_shape[4] - 1)) \X (0..(stack_shape[5] - 1))
                    \X (0..(stack_shape[6] - 1)) \X (0..(stack_shape[7] - 1))
        written(c) == {i \in DOMAIN frames_meta : coord(frames_meta[i]) = c}
        squeezed == squeeze_stack(stack_shape)
        failed(e) == [raised |-> e, shape |-> << >>, dim_str |-> "",
                      unique_ids |-> unique_ids, planes |-> << >>]
    IN IF \E i \in DOMAIN frames_meta : im_list[i].raised # "none"
       THEN failed("ClientError")
       ELSE IF \E i \in DOMAIN frames_meta : coord(frames_meta[i]) \notin coords
       THEN failed("IndexError")
       ELSE IF \E i \in DOMAIN frames_meta : ~fits(i)
       THEN failed("ValueError")
       ELSE [raised |-> "none", shape |-> squeezed.shape,
             dim_str |-> squeezed.dim_str, unique_ids |-> unique_ids,
             planes |-> [c \in coords |->
                           IF written(c) = {} THEN "zeros"
                           ELSE im_list[CHOOSE i \in written(c) :
                                   \A j \in written(c) : j <= i].im.data]]

-----------------------------------------------------------------------------
(* utils/cli_utils.py and cli/cli_utils.py: validate_id.  A dataset id is a  *)
(* string; the ids of the model are made of letters, digits, '-' and '_'.    *)

\* assert lo <= int(s) <= hi
assert_in_range(s, lo, hi) ==
    IF int(s).raised # "none" THEN int(s).raised
    ELSE IF lo <= int(s).value /\ int(s).value <= hi THEN "none"
    ELSE "AssertionError"

\* the asserts of validate_id after the field count (and project id): what
\* the first one that fails raises.  substrs is 1-based here.
validate_fields(substrs) ==
    IF Len(substrs[2]) # 4 THEN "AssertionError"
    ELSE IF \E t \in 3..7 : Len(substrs[t]) # 2 THEN "AssertionError"
    ELSE IF assert_in_range(substrs[3], 1, 12) # "none"
    THEN assert_in_range(substrs[3], 1, 12)
    ELSE IF assert_in_range(substrs[4], 1, 31) # "none"
    THEN assert_in_range(substrs[4], 1, 31)
    ELSE IF assert_in_range(substrs[5], 0, 23) # "none"
    THEN assert_in_range(substrs[5], 0, 23)
    ELSE IF assert_in_range(substrs[6], 0, 59) # "none"
    THEN assert_in_range(substrs[6], 0, 59)
    ELSE IF assert_in_range(substrs[7], 0, 59) # "none"
    THEN assert_in_range(substrs[7], 0, 59)
    ELSE IF Len(substrs[8]) # 4 THEN "AssertionError"
    ELSE assert_in_range(substrs[8], 0, 9999)

\* validate_id of utils/cli_utils.py: "none" or what it raises
validate_id(id_str) ==
    LET substrs == split(id_str, "-") IN
    IF Len(substrs) # 8 THEN "AssertionError"
    ELSE validate_fields(substrs)

\* validate_id of cli/cli_utils.py, which also checks the project id
cli_validate_id(id_str) ==
    LET substrs == split(id_str, "-") IN
    IF Len(substrs) # 8 THEN "AssertionError"
    ELSE IF substrs[1] \notin {"ISP", "ML"} THEN "AssertionError"
    ELSE validate_fields(substrs)

-----------------------------------------------------------------------------
(* cli/data_uploader.py: upload_data_and_update_db, one csv row at a time *)

\* (a variant that lets every serial pass)
db_assert_unique_id_skipped(store, dataset_serial) == "none"

\* DatabaseOperations.assert_unique_id of db_session.py
db_assert_unique_id(store, dataset_serial) ==
    IF Cardinality(DatasetsOf(store, dataset_serial)) = 0
    THEN "none" ELSE "AssertionError"

\* the parent_dataset_id column of the csv: a serial or the string 'None'
CsvParents == {ParentNoneStr} \cup {ParentSerial(s) : s \in Serials}

\* the row is finished: its outcome becomes the last call
EndRow(raised, at) ==
    /\ pc' = "idle"
    /\ last' = [op |-> "upload_data_and_update_db", serial |-> run.serial,
                raised |-> raised, at |-> at]

\* row.dataset_id of the csv row of a serial: the first serial is the id of
\* test_validate_id, the second has one more character
dataset_id(serial) ==
    "ISP-2018-06-08-15-45-00-000" \o Str(serial[1])
        \o (IF Len(serial) > 1 THEN Str(serial[2]) ELSE "")

\* the row begins: an AssertionError of validate_id is caught and printed
\* (another exception ends the row), then the database class is created,
\* which connects to the database
StartRow ==
    \E serial \in Serials, override \in BOOLEAN, acq \in Acquisitions,
       upload_type \in {"frames", "file"}, parent \in CsvParents :
        LET id_raised == cli_validate_id(dataset_id(serial))
            aborts == id_raised \notin {"none", "AssertionError"} IN
        /\ pc = "idle"
        /\ nops < MaxRows
        /\ upload_type = "file" => acq.kind = "tif_id"
        /\ nops' = nops + 1
        /\ last' = IF aborts
                   THEN [op |-> "upload_data_and_update_db", serial |-> serial,
                         raised |-> id_raised, at |-> "validate_id"]
                   ELSE NoCall
        /\ run' = [kind |-> "row", serial |-> serial, override |-> override,
                   id_raised |-> id_raised, connected |-> ~aborts,
                   upload_type |-> upload_type, acq |-> acq, parent |-> parent,
                   s3_dir |-> <<IF upload_type = "frames" THEN FRAME_FOLDER_NAME
                                ELSE FILE_FOLDER_NAME, serial>>,
                   in_db |-> DatasetsOf(db, serial) # {},
                   s3_before |-> s3, db_before |-> db, attempted |-> {},
                   failing |-> {},
                   skipped |-> {}, frames_meta |-> << >>,
                   frames_json |-> << >>, global_meta |-> None,
                   inserted |-> FALSE]
        /\ pc' = IF aborts THEN "idle" ELSE "db_assert"
        /\ UNCHANGED <<s3, localDirs, localFiles, db>>

\* if not args.override: db_inst.assert_unique_id()
DbAssertUnique ==
    /\ pc = "db_assert"
    /\ IF ~run.override /\ db_assert_unique_id(db, run.serial) # "none"
       THEN EndRow("AssertionError", "db_assert")
       ELSE /\ pc' = IF run.upload_type = "frames" THEN "splitter"
                     ELSE "file_assert"
            /\ last' = last
    /\ UNCHANGED <<s3, localDirs, localFiles, db, run, nops>>

\* splitter_class(...): FileSplitter.__init__ checks the storage prefix
InitSplitter ==
    /\ pc = "splitter"
    /\ IF ~run.override /\ s3_assert_unique_id(s3, run.s3_dir).raised # "none"
       THEN EndRow("AssertionError", "splitter")
       ELSE pc' = "split" /\ last' = last
    /\ UNCHANGED <<s3, localDirs, localFiles, db, run, nops>>

\* frames_inst.get_frames_and_metadata(): split, and upload the frames
GetFramesAndMetadata ==
    /\ pc = "split"
    /\ \E failing \in {{}} \cup
                  {{k} : k \in get_frames_and_metadata(s3, run.s3_dir, run.acq,
                                                       {}, "lowest").attempted},
          lands \in PoolOutcomes :
        LET res == get_frames_and_metadata(s3, run.s3_dir, run.acq, failing,
                                           lands) IN
        /\ s3' = res.store
        /\ run' = [run EXCEPT !.attempted = res.attempted,
                              !.failing = failing,
                              !.skipped = {s3_key(run.s3_dir,
                                             res.frames_meta[i].file_name) :
                                             i \in DOMAIN res.frames_meta}
                                          \cap DOMAIN s3,
                              !.frames_meta = res.frames_meta,
                              !.frames_json = res.frames_json,
                              !.global_meta = res.global_meta]
        /\ IF res.raised # "none"
           THEN EndRow(res.raised, "split")
           ELSE pc' = "insert" /\ last' = last
        /\ UNCHANGED <<localDirs, localFiles, db, nops>>

\* db_inst.insert_frames(...); an AssertionError is printed, not raised
InsertFramesRow ==
    \E commit_fails \in BOOLEAN :
        LET body == insert_frames_body(db, DatasetsOf(db, run.serial),
                        run.serial, run.frames_meta, run.frames_json,
                        run.global_meta, session_get_parent(db, run.parent))
            res == session_session_scope(db, body, commit_fails) IN
        /\ pc = "insert"
        /\ db' = res.db
        /\ run' = [run EXCEPT !.inserted = (res.raised = "none")]
        /\ EndRow(IF res.raised = "AssertionError" THEN "none" ELSE res.raised,
                  "insert")
        /\ UNCHANGED <<s3, localDirs, localFiles, nops>>

\* file upload: if not args.override: data_uploader.assert_unique_id()
FileAssertUnique ==
    /\ pc = "file_assert"
    /\ IF ~run.override /\ s3_assert_unique_id(s3, run.s3_dir).raised # "none"
       THEN EndRow("AssertionError", "file_assert")
       ELSE pc' = "upload_file" /\ last' = last
    /\ UNCHANGED <<s3, localDirs, localFiles, db, run, nops>>

\* data_uploader.upload_file(...); an AssertionError is printed, not raised
UploadFile ==
    \E put_fails \in BOOLEAN :
        LET key == s3_key(run.s3_dir, "file.tif")
            res == s3_upload_file(s3, run.s3_dir, "file.tif",
                                  [format |-> "file", shape |-> << >>,
                                   data |-> <<run.acq.name, 0>>], put_fails) IN
        /\ pc = "upload_file"
        /\ s3' = res.store
        /\ run' = [run EXCEPT
                     !.attempted = IF res.raised = "AssertionError" THEN {}
                                   ELSE {key},
                     !.failing = IF res.raised = "S3UploadFailedError"
                                 THEN {key} ELSE {}]
        /\ IF res.raised \notin {"none", "AssertionError"}
           THEN EndRow(res.raised, "upload_file")
           ELSE pc' = "insert_file" /\ last' = last
        /\ UNCHANGED <<localDirs, localFiles, db, nops>>

\* db_inst.insert_file(...); an AssertionError is printed, not raised
InsertFileRow ==
    \E commit_fails \in BOOLEAN :
        LET body == insert_file_body(db, run.serial, run.s3_dir, None,
                                     session_get_parent(db, run.parent))
            res == session_session_scope(db, body, commit_fails) IN
        /\ pc = "insert_file"
        /\ db' = res.db
        /\ run' = [run EXCEPT !.inserted = (res.raised = "none")]
        /\ EndRow(IF res.raised = "AssertionError" THEN "none" ELSE res.raised,
                  "insert_file")
        /\ UNCHANGED <<s3, localDirs, localFiles, nops>>

\* the frames of a dataset are queried without filters (get_frames_meta of
\* db_session.py, rows in any order) and reassembled
QueryAndReassemble ==
    \E serial \in Serials :
        LET meta == session_get_frames_meta(db, serial, All, All, All, All) IN
        /\ pc = "idle"
        /\ IF meta.raised # "none"
           THEN last' = [op |-> "get_stack_from_meta", serial |-> serial,
                         raised |-> meta.raised, shape |-> << >>,
                         dim_str |-> << >>, planes |-> << >>]
           ELSE \E frames_meta \in Orderings(meta.rows) :
                  LET res == get_stack_from_meta(s3, meta.global_meta,
                                                 frames_meta) IN
                  last' = [op |-> "get_stack_from_meta", serial |-> serial,
                           raised |-> res.raised, shape |-> res.shape,
                           dim_str |-> res.dim_str, planes |-> res.planes]
        /\ UNCHANGED <<s3, localDirs, localFiles, db, pc, run, nops>>

Next ==
    \/ QueryAndReassemble
    \/ StartRow
    \/ DbAssertUnique
    \/ InitSplitter
    \/ GetFramesAndMetadata
    \/ InsertFramesRow
    \/ FileAssertUnique
    \/ UploadFile
    \/ InsertFileRow

Spec == Init /\ [][Next]_vars

-----------------------------------------------------------------------------
(* Properties of the upload pipeline (Spec) *)

\* the storage key of a frame row of the metadata store
FrameKey(f) ==
    s3_key((CHOOSE g \in db.frames_global : g.id = f.image_id).storage_dir,
           f.file_name)

\* C1: when insert_frames is reached the upload batch is over and every frame
\* row handed to it names an object that exists in storage; the metadata
\* store never holds a Frame row whose object is not in storage.
C1_FrameRowsNameStoredObjects ==
    /\ pc = "insert" =>
          \A i \in DOMAIN run.frames_meta :
             s3_key(run.s3_dir, run.frames_meta[i].file_name) \in DOMAIN s3
    /\ \A f \in db.frames : FrameKey(f) \in DOMAIN s3

\* C2: a row uploaded without override whose serial is already in the
\* metadata store ends with the already-exists AssertionError of the
\* database check, and no storage write is attempted for it.
C2_NoWriteWhenSerialInDb ==
    (run.kind = "row" /\ ~run.override /\ run.in_db) =>
        /\ pc \in {"db_assert", "idle"}
        /\ run.attempted = {}
        /\ s3 = run.s3_before
        /\ (pc = "idle" /\ last.op = "upload_data_and_update_db")
              => (last.raised = "AssertionError" /\ last.at = "db_assert")

\* a second row for a serial that the first row inserted was refused
C2_Witness ==
    /\ run.kind = "row" /\ ~run.override /\ run.in_db
    /\ pc = "idle"
    /\ last.op = "upload_data_and_update_db"
    /\ last.raised = "AssertionError"
    /\ s3 # EmptyStore

\* the frames of an acquisition before it is split: index tuple and pixels.
\* A tif_id file is acquired channels first, then slices, positions, frames.
OrigFrames(acq) ==
    IF acq.kind = "tif_id"
    THEN {[channel_idx |-> c, slice_idx |-> z, time_idx |-> tt, pos_idx |-> p,
           data |-> Page(acq, c + acq.nbr_channels
                               * (z + acq.nbr_slices
                                  * (p + acq.nbr_positions * tt))).data] :
            c \in 0..(acq.nbr_channels - 1), z \in 0..(acq.nbr_slices - 1),
            tt \in 0..(acq.nbr_timepoints - 1),
            p \in 0..(acq.nbr_positions - 1)}
    ELSE {[channel_idx |-> acq.files[i].channel_idx,
           slice_idx |-> acq.files[i].slice_idx,
           time_idx |-> acq.files[i].time_idx,
           pos_idx |-> acq.files[i].pos_idx,
           data |-> Page(acq, i - 1).data] : i \in DOMAIN acq.files}

\* number of values below v among the values of a dimension
RankAmong(v, values) == Cardinality({w \in values : w < v})

\* shape of the original data: height, width and the dimensions that have
\* more than one value, in the order slices, channels, times, positions
OrigShape(acq) ==
    SelectSeq(<<acq.height, acq.width,
                Cardinality({f.slice_idx : f \in OrigFrames(acq)}),
                Cardinality({f.channel_idx : f \in OrigFrames(acq)}),
                Cardinality({f.time_idx : f \in OrigFrames(acq)}),
                Cardinality({f.pos_idx : f \in OrigFrames(acq)})>>,
              LAMBDA d : d # 1)

\* the last call reassembled the dataset of the last row, and that row wrote
\* every frame of its acquisition and inserted its metadata
RoundTripDone ==
    /\ last.op = "get_stack_from_meta"
    /\ run.kind = "row" /\ run.upload_type = "frames"
    /\ last.serial = run.serial
    /\ run.inserted
    /\ run.failing = {} /\ run.skipped = {}

\* C9: after an acquisition was split, its frames uploaded and its metadata
\* inserted, the query without filters and the reassembly give a stack that
\* holds, at the coordinate of every (channel, slice, time, position) of the
\* acquisition, the original pixels of that frame, and whose shape is the
\* shape of the original data.
C9_RoundTrip ==
    RoundTripDone =>
        /\ last.raised = "none"
        /\ last.shape = OrigShape(run.acq)
        /\ \A f \in OrigFrames(run.acq) :
             LET O == OrigFrames(run.acq) IN
             last.planes[<<RankAmong(f.slice_idx, {g.slice_idx : g \in O}),
                           RankAmong(f.channel_idx, {g.channel_idx : g \in O}),
                           RankAmong(f.time_idx, {g.time_idx : g \in O}),
                           RankAmong(f.pos_idx, {g.pos_idx : g \in O})>>]
               = f.data

\* a tif_id acquisition of two channels and two timepoints went round
C9_Witness ==
    /\ RoundTripDone
    /\ run.acq.kind = "tif_id"
    /\ last.raised = "none"
    /\ Len(last.shape) = 4

\* the distinct values of an index among the rows the splitter emitted
Distinct(col) == {run.frames_meta[i][col] : i \in DOMAIN run.frames_meta}

IndexTuple(f) == <<f.channel_idx, f.slice_idx, f.time_idx, f.pos_idx>>

\* C17: no two Frame rows of one dataset (one FramesGlobal) have the same
\* (channel_idx, slice_idx, time_idx, pos_idx) tuple, and no two have the
\* same file name.
C17_IndexTuplesUnique ==
    \A f, g \in db.frames :
        (f.image_id = g.image_id /\ f.id # g.id) =>
            /\ IndexTuple(f) # IndexTuple(g)
            /\ f.file_name # g.file_name

\* C19: a csv row whose dataset id fails validate_id ends with the
\* validation error before the metadata store is reached and before any
\* storage write for it.
C19_InvalidIdAborts ==
    (run.kind = "row" /\ run.id_raised # "none") =>
        /\ pc = "idle"
        /\ ~run.connected
        /\ run.attempted = {}
        /\ s3 = run.s3_before
        /\ last.op = "upload_data_and_update_db"
              => (last.raised = "AssertionError" /\ last.at = "validate_id")

\* the frame rows and the objects of the row's acquisition were all there
\* when the row began: the same acquisition was ingested under this serial
SameIngestedBefore ==
    LET res == get_frames_and_metadata(EmptyStore, run.s3_dir, run.acq, {},
                                       "lowest")
        names == {res.frames_meta[i].file_name : i \in DOMAIN res.frames_meta}
        ds == DatasetsOf(run.db_before, run.serial)
    IN /\ res.raised = "none"
       /\ \A n \in names : s3_key(run.s3_dir, n) \in DOMAIN run.s3_before
       /\ \E d \in ds : \E g \in run.db_before.frames_global :
             /\ g.dataset_id = d.id
             /\ {f.file_name : f \in {h \in run.db_before.frames :
                                         h.image_id = g.id}} = names

\* C21: a frames row with the override flag for a serial that is already in
\* the metadata store leaves the rows of the store and every object that
\* was stored as they were; when the same acquisition had been ingested
\* under the serial, the row ends without raising and writes nothing.
C21_OverrideRerunSkips ==
    (run.kind = "row" /\ run.override /\ run.upload_type = "frames"
       /\ run.in_db) =>
        /\ db = run.db_before
        /\ \A k \in DOMAIN run.s3_before :
              k \in DOMAIN s3 /\ s3[k] = run.s3_before[k]
        /\ SameIngestedBefore =>
              /\ s3 = run.s3_before
              /\ (pc = "idle" /\ last.op = "upload_data_and_update_db")
                    => last.raised = "none"

\* the re-run of an ingested acquisition went through to the insert and
\* ended, every frame skipped
C21_Witness ==
    /\ run.kind = "row" /\ run.override /\ run.upload_type = "frames"
    /\ run.in_db /\ SameIngestedBefore
    /\ pc = "idle"
    /\ last.op = "upload_data_and_update_db"
    /\ last.at = "insert" /\ last.raised = "none"
    /\ run.skipped # {}

-----------------------------------------------------------------------------
(* Queries with filters and the reassembly of their frames (SpecQuery):     *)
(* frames are uploaded and inserted as the storage and database tests do,   *)
(* then queried with get_frames_meta of db_operations.py and reassembled    *)
(* with get_stack_from_meta of data_storage.py.                              *)

StackRow(c, z) ==
    [channel_idx |-> c, slice_idx |-> z, time_idx |-> 0, pos_idx |-> 3,
     channel_name |-> Str(c),
     file_name |-> get_imname([channel_idx |-> c, slice_idx |-> z,
                               time_idx |-> 0, pos_idx |-> 3],
                              FRAME_FILE_FORMAT)]

\* a full grid of channels {0, 1} and slices {5, 7}, and a dataset holding
\* only two of its combinations
GridMeta == <<StackRow(0, 5), StackRow(1, 5), StackRow(0, 7), StackRow(1, 7)>>
SparseMeta == <<StackRow(1, 7), StackRow(0, 5)>>
StackMetas == {GridMeta, SparseMeta}

\* the 2 x 3 frame of a row; its pixels are named by the row's indices
StackIm(row) ==
    [shape |-> <<2, 3, 1>>, data |-> <<row.channel_idx, row.slice_idx>>]

\* the datasets of these tests have one serial
StackSerials == {<<1>>}

StackFilters ==
    [pos : {All, Only({3})}, times : {All, Only({0})},
     channels : {All, Only({"0"}), Only({"0", "4"})},
     slices : {All, Only({5}), Only({5, 6}), Only({6})}]

\* storage.upload_frames of the frames of a dataset
UploadStack ==
    \E serial \in StackSerials, meta \in StackMetas :
        LET dir == <<FRAME_FOLDER_NAME, serial>>
            up == s3_upload_frames(s3, dir,
                      [i \in DOMAIN meta |-> meta[i].file_name],
                      [i \in DOMAIN meta |-> StackIm(meta[i])],
                      FRAME_FILE_FORMAT, {}) IN
        /\ s3' = up.store
        /\ last' = [op |-> "upload_frames", serial |-> serial,
                    raised |-> up.raised]
        /\ UNCHANGED <<localDirs, localFiles, db, pc, run, nops>>

\* insert_frames of the metadata of a dataset, in a session_scope
InsertStack ==
    \E serial \in StackSerials, meta \in StackMetas :
        LET dir == <<FRAME_FOLDER_NAME, serial>>
            body == insert_frames(db, serial, meta,
                        [i \in DOMAIN meta |-> "json"],
                        set_global_meta(dir, [height |-> 2, width |-> 3],
                                        meta, Len(meta)),
                        ParentPyNone)
            res == session_scope(db, body, FALSE) IN
        /\ db' = res.db
        /\ last' = [op |-> "insert_frames", serial |-> serial,
                    raised |-> res.raised]
        /\ UNCHANGED <<s3, localDirs, localFiles, pc, run, nops>>

\* get_frames_meta with filters, then get_stack_from_meta on its result
GetStack ==
    \E serial \in StackSerials, f \in StackFilters :
        LET meta == ops_get_frames_meta(db, serial, f.pos, f.times,
                                        f.channels, f.slices)
            res == data_get_stack_from_meta(s3, meta.global_meta.storage_dir,
                                            meta.global_meta, meta.frames_meta)
        IN
        /\ last' = IF meta.raised # "none"
                   THEN [op |-> "get_stack_from_meta", serial |-> serial,
                         filters |-> f, before |-> db, queried |-> meta.raised,
                         raised |-> meta.raised]
                   ELSE [op |-> "get_stack_from_meta", serial |-> serial,
                         filters |-> f, before |-> db, queried |-> "none",
                         frames_meta |-> meta.frames_meta,
                         raised |-> res.raised, shape |-> res.shape,
                         dim_str |-> res.dim_str,
                         unique_ids |-> res.unique_ids, planes |-> res.planes]
        /\ UNCHANGED <<s3, localDirs, localFiles, db, pc, run, nops>>

\* squeeze_stack called on a stack of zeros of any 7-axis shape
SqueezeStack ==
    \E stack_shape \in [1..7 -> {1, 2}] :
        LET res == squeeze_stack(stack_shape) IN
        /\ last' = [op |-> "squeeze_stack", stack_shape |-> stack_shape,
                    raised |-> "none", shape |-> res.shape,
                    dim_str |-> res.dim_str]
        /\ UNCHANGED <<s3, localDirs, localFiles, db, pc, run, nops>>

NextQuery == UploadStack \/ InsertStack \/ GetStack \/ SqueezeStack

SpecQuery == Init /\ [][NextQuery]_vars

-----------------------------------------------------------------------------
(* Properties of the filtered reassembly (SpecQuery) *)

\* the size of the returned stack along an axis: that of the axis in the
\* squeezed shape when its label is in the dimension string, else 1
AxisSize(label) ==
    IF \E i \in 1..Len(last.dim_str) : SubSeq(last.dim_str, i, i) = label
    THEN last.shape[CHOOSE i \in 1..Len(last.dim_str) :
                       SubSeq(last.dim_str, i, i) = label]
    ELSE 1

Reassembled == last.op = "get_stack_from_meta" /\ last.raised = "none"

Filtered ==
    ~(last.filters.pos.all /\ last.filters.times.all
        /\ last.filters.channels.all /\ last.filters.slices.all)

AllRows == frames_query(last.before, last.serial)
MatchingRows == Matching(last.before, last.serial, last.filters)

\* every combination of the index values of the rows is one of the rows
IsGrid(rows) ==
    Cardinality(rows) =
        Cardinality({r.slice_idx : r \in rows})
          * Cardinality({r.channel_idx : r \in rows})
          * Cardinality({r.time_idx : r \in rows})
          * Cardinality({r.pos_idx : r \in rows})

\* C11 as stated: after a filtered query the stack's size along each
\* filtered axis is the number of distinct requested values, and along each
\* unfiltered axis the number of distinct values of the whole dataset.
C11_AxesCountRequestedValues ==
    (Reassembled /\ Filtered) =>
        /\ AxisSize("Z") = IF last.filters.slices.all
                           THEN Cardinality({r.slice_idx : r \in AllRows})
                           ELSE Cardinality(last.filters.slices.vals)
        /\ AxisSize("C") = IF last.filters.channels.all
                           THEN Cardinality({r.channel_idx : r \in AllRows})
                           ELSE Cardinality(last.filters.channels.vals)
        /\ AxisSize("T") = IF last.filters.times.all
                           THEN Cardinality({r.time_idx : r \in AllRows})
                           ELSE Cardinality(last.filters.times.vals)
        /\ AxisSize("P") = IF last.filters.pos.all
                           THEN Cardinality({r.pos_idx : r \in AllRows})
                           ELSE Cardinality(last.filters.pos.vals)

\* C11 (amended): after a filtered query the stack's size along each of the
\* four axes is the number of distinct values of that index among the frames
\* that match the filter: along a filtered axis the number of requested
\* values that occur among them, along an unfiltered axis at most the
\* dataset's distinct-value count, and exactly that count when the dataset
\* holds every combination of its index values.
C11_AxesCountMatchingValues ==
    (Reassembled /\ Filtered) =>
        /\ AxisSize("Z") = Cardinality({r.slice_idx : r \in MatchingRows})
        /\ AxisSize("C") = Cardinality({r.channel_idx : r \in MatchingRows})
        /\ AxisSize("T") = Cardinality({r.time_idx : r \in MatchingRows})
        /\ AxisSize("P") = Cardinality({r.pos_idx : r \in MatchingRows})
        /\ ~last.filters.slices.all =>
              AxisSize("Z") = Cardinality({v \in last.filters.slices.vals :
                                 \E r \in MatchingRows : r.slice_idx = v})
        /\ ~last.filters.channels.all =>
              AxisSize("C") = Cardinality({v \in last.filters.channels.vals :
                                 \E r \in MatchingRows : r.channel_name = v})
        /\ ~last.filters.times.all =>
              AxisSize("T") = Cardinality({v \in last.filters.times.vals :
                                 \E r \in MatchingRows : r.time_idx = v})
        /\ ~last.filters.pos.all =>
              AxisSize("P") = Cardinality({v \in last.filters.pos.vals :
                                 \E r \in MatchingRows : r.pos_idx = v})
        /\ last.filters.slices.all =>
              /\ AxisSize("Z") <= Cardinality({r.slice_idx : r \in AllRows})
              /\ IsGrid(AllRows) =>
                    AxisSize("Z") = Cardinality({r.slice_idx : r \in AllRows})
        /\ last.filters.channels.all =>
              /\ AxisSize("C") <= Cardinality({r.channel_idx : r \in AllRows})
              /\ IsGrid(AllRows) =>
                    AxisSize("C") = Cardinality({r.channel_idx : r \in AllRows})
        /\ last.filters.times.all =>
              AxisSize("T") = Cardinality({r.time_idx : r \in AllRows})
        /\ last.filters.pos.all =>
              AxisSize("P") = Cardinality({r.pos_idx : r \in AllRows})

\* a channel filter on the dataset that lacks combinations: one slice is
\* left of the dataset's two
C11_Witness ==
    /\ Reassembled
    /\ ~last.filters.channels.all
    /\ last.filters.slices.all
    /\ AxisSize("Z") = 1
    /\ Cardinality({r.slice_idx : r \in AllRows}) = 2
    /\ AxisSize("C") = 1
    /\ Cardinality(last.filters.channels.vals) = 2

\* the rank of a value among the distinct values of a set, counted from 0
RankOf(v, S) == Cardinality({x \in S : x < v})

ReturnedRows == Range(last.frames_meta)

\* the slot that the ranks of a row's four indices name
SlotOfRow(r) ==
    <<RankOf(r.slice_idx, {q.slice_idx : q \in ReturnedRows}),
      RankOf(r.channel_idx, {q.channel_idx : q \in ReturnedRows}),
      RankOf(r.time_idx, {q.time_idx : q \in ReturnedRows}),
      RankOf(r.pos_idx, {q.pos_idx : q \in ReturnedRows})>>

\* C12: get_stack_from_meta never fails on an index out of bounds; the stack
\* it returns has one slot per combination of the distinct slice, channel,
\* time and position values of the filtered rows, the frame of each row is
\* at the slot given by the ranks of its four indices among those values,
\* and every other slot is zeros.
C12_FramesAtRankSlots ==
    /\ (last.op = "get_stack_from_meta" /\ last.queried = "none")
          => last.raised # "IndexError"
    /\ Reassembled =>
          /\ DOMAIN last.planes =
                (0..(Cardinality({q.slice_idx : q \in ReturnedRows}) - 1))
                  \X (0..(Cardinality({q.channel_idx : q \in ReturnedRows}) - 1))
                  \X (0..(Cardinality({q.time_idx : q \in ReturnedRows}) - 1))
                  \X (0..(Cardinality({q.pos_idx : q \in ReturnedRows}) - 1))
          /\ \A r \in ReturnedRows :
                last.planes[SlotOfRow(r)] =
                    s3[s3_key(<<FRAME_FOLDER_NAME, last.serial>>,
                              r.file_name)].data
          /\ \A c \in DOMAIN last.planes :
                (\A r \in ReturnedRows : SlotOfRow(r) # c)
                    => last.planes[c] = "zeros"

\* the dataset that lacks combinations is reassembled whole: slices 5 and 7
\* are at ranks 0 and 1, and two slots stay zeros
C12_Witness ==
    /\ Reassembled
    /\ \E r \in ReturnedRows :
          /\ r.slice_idx = 7
          /\ SlotOfRow(r) = <<1, 1, 0, 0>>
          /\ last.planes[<<1, 1, 0, 0>>] = <<1, 7>>
    /\ last.planes[<<0, 1, 0, 0>>] = "zeros"
    /\ last.planes[<<1, 0, 0, 0>>] = "zeros"

\* the position in the 7-axis shape of its i-th axis of size other than 1
KeptAxis(stack_shape, i) ==
    CHOOSE k \in 1..Len(stack_shape) :
        /\ stack_shape[k] # 1
        /\ Cardinality({j \in 1..k : stack_shape[j] # 1}) = i

\* C13: squeeze_stack on a 7-axis stack returns an array with exactly the
\* axes whose size is not 1, in their order, and a dimension string with
\* exactly the labels of those axes from XYGZCTP, in their order; the length
\* of the string is the number of dimensions of the array.
C13_SqueezeKeepsLabelsOfAxes ==
    last.op = "squeeze_stack" =>
        LET kept == {k \in 1..7 : last.stack_shape[k] # 1} IN
        /\ Len(last.shape) = Cardinality(kept)
        /\ Len(last.dim_str) = Len(last.shape)
        /\ \A i \in 1..Cardinality(kept) :
              /\ last.shape[i] = last.stack_shape[KeptAxis(last.stack_shape, i)]
              /\ SubSeq(last.dim_str, i, i)
                    = dim_order[KeptAxis(last.stack_shape, i)]

\* the stack of test_squeeze_stack: G and T are single, XYZCP is left
C13_Witness ==
    /\ last.op = "squeeze_stack"
    /\ last.stack_shape = <<2, 2, 1, 2, 2, 1, 2>>
    /\ last.shape = <<2, 2, 2, 2, 2>>
    /\ last.dim_str = "XYZCP"

-----------------------------------------------------------------------------
(* images/file_splitter.py: _get_imname called on rows of frame metadata     *)
(* (SpecNames).  The last call keeps the row and the name of the call before *)
(* it, so that the names of any two rows can be compared.                    *)

\* rows of frame metadata: the indices of test_get_imname and others of one
\* to four digits, with and without a channel name
NameRows ==
    [channel_idx : {0, 6, 10}, slice_idx : {0, 13}, time_idx : {5, 100},
     pos_idx : {7, 1000}, channel_name : {None, "phase"}]

NoName == [meta_row |-> None, im_name |-> None]

GetImname ==
    \E meta_row \in NameRows :
        /\ pc = "idle"
        /\ last' = [op |-> "_get_imname", meta_row |-> meta_row,
                    im_name |-> get_imname(meta_row, FRAME_FILE_FORMAT),
                    before |-> IF last.op = "_get_imname"
                               THEN [meta_row |-> last.meta_row,
                                     im_name |-> last.im_name]
                               ELSE NoName]
        /\ UNCHANGED <<s3, localDirs, localFiles, db, pc, run, nops>>

NextNames == GetImname

SpecNames == Init /\ [][NextNames]_vars

-----------------------------------------------------------------------------
(* Properties of the file name (SpecNames) *)

\* an index written with at least three digits, zeros in front
ThreeDigits(n) ==
    (IF n >= 1000 THEN Digits[(n \div 1000) + 1] ELSE "")
        \o Digits[((n \div 100) % 10) + 1] \o Digits[((n \div 10) % 10) + 1]
        \o Digits[(n % 10) + 1]

\* C18: the file name of a row is im_c<channel>_z<slice>_t<time>_p<pos><ext>
\* with every index zero-padded to three digits; it depends on the four
\* indices alone, and two rows have the same name only if their four indices
\* are equal.
C18_NameFromIndices ==
    last.op = "_get_imname" =>
        /\ last.im_name = "im_c" \o ThreeDigits(last.meta_row.channel_idx)
                             \o "_z" \o ThreeDigits(last.meta_row.slice_idx)
                             \o "_t" \o ThreeDigits(last.meta_row.time_idx)
                             \o "_p" \o ThreeDigits(last.meta_row.pos_idx)
                             \o ".png"
        /\ ~IsNone(last.before.meta_row) =>
              (last.im_name = last.before.im_name
                 <=> IndexTuple(last.meta_row) = IndexTuple(last.before.meta_row))

\* the row of test_get_imname was named, after a row of the same indices
\* and another channel name
C18_Witness ==
    /\ last.op = "_get_imname"
    /\ IndexTuple(last.meta_row) = <<6, 13, 5, 7>>
    /\ last.im_name = "im_c006_z013_t005_p007.png"
    /\ ~IsNone(last.before.meta_row)
    /\ last.before.meta_row # last.meta_row
    /\ last.before.im_name = last.im_name

-----------------------------------------------------------------------------
(* validate_id of both modules called on dataset ids (SpecIds) *)

\* "-".join(fields)
RECURSIVE join(_)
join(fields) ==
    IF Len(fields) = 1 THEN fields[1]
    ELSE fields[1] \o "-" \o join(Tail(fields))

\* the fields of the id of test_validate_id
TestIdFields == <<"ISP", "2018", "06", "08", "15", "45", "00", "0001">>

\* ids of eight fields of the right lengths with every number at an end of
\* its range, and the id of test_validate_id
ValidIds ==
    {join(<<p, "2018", mo, d, h, mi, s, q>>) :
        p \in {"ISP", "ML", "AB"}, mo \in {"01", "12"}, d \in {"01", "31"},
        h \in {"00", "23"}, mi \in {"00", "59"}, s \in {"00", "59"},
        q \in {"0000", "9999"}}
    \cup {join(TestIdFields)}

\* the id of test_validate_id with one field of another length
WrongLengthIds ==
    {join([TestIdFields EXCEPT ![2] = y]) : y \in {"666", "20180"}}
    \cup {join([TestIdFields EXCEPT ![k] = v]) : k \in 3..7, v \in {"5", "005"}}
    \cup {join([TestIdFields EXCEPT ![8] = q]) : q \in {"001", "00001"}}

\* the id of test_validate_id with one number outside its range
OutOfRangeIds ==
    {join([TestIdFields EXCEPT ![3] = v]) : v \in {"00", "13", "50"}}
    \cup {join([TestIdFields EXCEPT ![4] = v]) : v \in {"00", "32"}}
    \cup {join([TestIdFields EXCEPT ![5] = "24"]),
          join([TestIdFields EXCEPT ![6] = "60"]),
          join([TestIdFields EXCEPT ![7] = "60"])}

\* ids of seven or nine fields (test_too_short, test_underscore)
WrongCountIds ==
    {"ISP-2018-06-08-15-45-0001", "ISP_2018-06-08-15-45-00-0001",
     join(TestIdFields \o <<"01">>), "BAD_ID"}

\* ids with a field that is not a number
NotANumberIds ==
    {join([TestIdFields EXCEPT ![3] = "ab"]),
     join([TestIdFields EXCEPT ![8] = "ABCD"])}

TestIds ==
    ValidIds \cup WrongLengthIds \cup OutOfRangeIds \cup WrongCountIds
        \cup NotANumberIds

ValidateId ==
    \E id_str \in TestIds, module \in {"utils", "cli"} :
        /\ pc = "idle"
        /\ last' = [op |-> "validate_id", module |-> module,
                    id_str |-> id_str,
                    raised |-> IF module = "utils" THEN validate_id(id_str)
                               ELSE cli_validate_id(id_str)]
        /\ UNCHANGED <<s3, localDirs, localFiles, db, pc, run, nops>>

NextIds == ValidateId

SpecIds == Init /\ [][NextIds]_vars

-----------------------------------------------------------------------------
(* Properties of validate_id (SpecIds) *)

\* C20: validate_id accepts every id of eight fields with a year of four
\* characters, month, day, hour, minute and second of two characters within
\* 1-12, 1-31, 0-23, 0-59 and 0-59, and a sequence number of four digits;
\* an id with one wrong field count, one field of a wrong length or one
\* number out of its range fails with the AssertionError.
C20_ValidateId ==
    last.op = "validate_id" =>
        /\ last.id_str \in ValidIds => last.raised = "none"
        /\ last.id_str \in WrongCountIds \cup WrongLengthIds \cup OutOfRangeIds
              => last.raised = "AssertionError"

\* the same for validate_id of utils/cli_utils.py alone
C20_UtilsValidateId ==
    (last.op = "validate_id" /\ last.module = "utils") =>
        /\ last.id_str \in ValidIds => last.raised = "none"
        /\ last.id_str \in WrongCountIds \cup WrongLengthIds \cup OutOfRangeIds
              => last.raised = "AssertionError"

-----------------------------------------------------------------------------
(* utils/aux_utils.py: parse_sms_name called file after file with one shared *)
(* channel_names list, as the folder splitter does (SpecParse).  run keeps   *)
(* the list and what every call so far assigned.                             *)

\* file names of test_parse_sms_name and test_parse_sms_name_long_channel,
\* names of other channels and times, and a name without a slice part
SmsNames ==
    {"img_phase_t500_p400_z300.tif", "img_long_c_name_t001_z002_p003.tif",
     "img_brightfield_t500_p400_z300.tif", "img_phase_t001_p400_z300.tif",
     "img_568_t500_p400_z300.tif", "img_phase_t500_p400.tif"}

\* the list is empty when the splitter is created; the test starts from a
\* list of one name
NewChannelNames ==
    \E channel_names \in {<< >>, <<"brightfield">>} :
        /\ pc = "idle"
        /\ run.kind = "none"
        /\ run' = [kind |-> "parse", channel_names |-> channel_names,
                   calls |-> << >>]
        /\ last' = NoCall
        /\ UNCHANGED <<s3, localDirs, localFiles, db, pc, nops>>

ParseSmsName ==
    /\ pc = "idle"
    /\ run.kind = "parse"
    /\ Len(run.calls) < MaxParse
    /\ \E file_name \in SmsNames :
        LET res == parse_sms_name(file_name, NanRow, run.channel_names) IN
        /\ run' = [run EXCEPT
                     !.channel_names = res.channel_names,
                     !.calls = Append(@, [file_name |-> file_name,
                                          meta_row |-> res.meta_row,
                                          channel_names |-> res.channel_names])]
        /\ last' = [op |-> "parse_sms_name", file_name |-> file_name,
                    meta_row |-> res.meta_row, raised |-> res.raised,
                    before |-> run.channel_names,
                    channel_names |-> res.channel_names]
    /\ UNCHANGED <<s3, localDirs, localFiles, db, pc, nops>>

\* folders of files named the sms way: complete names, a name without a
\* slice part alone and after a complete name, and a time that is no number
SmsFolders ==
    {<<"img_phase_t500_p400_z300.tif">>,
     <<"img_phase_t500_p400_z300.tif", "img_568_t500_p400_z300.tif">>,
     <<"img_phase_t500_p400.tif">>,
     <<"img_phase_t001_p400_z300.tif", "img_phase_t500_p400.tif">>,
     <<"img_phase_tabc_p400_z300.tif">>}

AcqSmsFolder(files) ==
    [name |-> "S", kind |-> "sms_folder", height |-> 2, width |-> 3,
     nbr_pages |-> Len(files), files |-> files]

\* the splitter is created for a folder and a storage directory
StartSmsFolder ==
    /\ pc = "idle"
    /\ run.kind = "none"
    /\ \E files \in SmsFolders, dir \in Dirs :
         run' = [kind |-> "sms_folder", files |-> files, dir |-> dir,
                 i |-> 1, frames_meta |-> << >>, channel_names |-> << >>,
                 phase |-> "parse"]
    /\ last' = NoCall
    /\ UNCHANGED <<s3, localDirs, localFiles, db, pc, nops>>

\* one turn of the first loop of get_frames_and_metadata: the row of the
\* next file; what the parser raises ends the splitter
SmsSetFrameMeta ==
    /\ pc = "idle"
    /\ run.kind = "sms_folder"
    /\ run.phase = "parse"
    /\ run.i <= Len(run.files)
    /\ LET r == sms_set_frame_meta(run.files[run.i], run.channel_names) IN
       IF r.raised # "none"
       THEN /\ run' = [run EXCEPT !.phase = "done"]
            /\ last' = [op |-> "sms_folder_get_frames_and_metadata",
                        files |-> run.files, raised |-> r.raised,
                        frames_meta |-> << >>, global_meta |-> None]
       ELSE /\ run' = [run EXCEPT !.i = @ + 1,
                                  !.frames_meta = Append(@, r.meta_row),
                                  !.channel_names = r.channel_names]
            /\ UNCHANGED last
    /\ UNCHANGED <<s3, localDirs, localFiles, db, pc, nops>>

\* the rest of get_frames_and_metadata: the uploads of the pool, with at
\* most one failing write, and set_global_meta
SmsUploadFolder ==
    /\ pc = "idle"
    /\ run.kind = "sms_folder"
    /\ run.phase = "parse"
    /\ run.i > Len(run.files)
    /\ \E none_kept \in BOOLEAN,
          failing \in {{}, {s3_key(run.dir, run.frames_meta[1].file_name)}} :
        LET res == sms_folder_get_frames_and_metadata(
                       s3, run.dir, AcqSmsFolder(run.files), run.frames_meta,
                       failing, none_kept)
        IN /\ s3' = res.store
           /\ run' = [run EXCEPT !.phase = "done"]
           /\ last' = [op |-> "sms_folder_get_frames_and_metadata",
                       files |-> run.files, raised |-> res.raised,
                       frames_meta |-> res.frames_meta,
                       global_meta |-> res.global_meta]
    /\ UNCHANGED <<localDirs, localFiles, db, pc, nops>>

NextParse ==
    NewChannelNames \/ ParseSmsName \/ StartSmsFolder \/ SmsSetFrameMeta
        \/ SmsUploadFolder

SpecParse == Init /\ [][NextParse]_vars

-----------------------------------------------------------------------------
(* Properties of parse_sms_name (SpecParse) *)

\* C28: over the calls that share one channel_names list, two files get the
\* same channel_idx exactly when they have the same channel name; the index
\* of a name is its place of first appearance in the list, and the list
\* holds the name at that place after every later call.
C28_ChannelIndexByName ==
    run.kind = "parse" =>
        \A i \in DOMAIN run.calls :
            LET a == run.calls[i].meta_row IN
            /\ \A j \in DOMAIN run.calls :
                  LET b == run.calls[j].meta_row IN
                  a.channel_idx = b.channel_idx
                      <=> a.channel_name = b.channel_name
            /\ \A j \in i..Len(run.calls) :
                  LET names == run.calls[j].channel_names IN
                  /\ a.channel_idx + 1 \in DOMAIN names
                  /\ names[a.channel_idx + 1] = a.channel_name
                  /\ \A k \in 1..a.channel_idx : names[k] # a.channel_name

\* three calls: a new channel, another new channel, the first channel again
C28_Witness ==
    /\ run.kind = "parse"
    /\ Len(run.calls) = 3
    /\ run.calls[1].meta_row.channel_name = "phase"
    /\ run.calls[2].meta_row.channel_name = "long_c_name"
    /\ run.calls[3].meta_row.channel_name = "phase"
    /\ run.calls[3].meta_row.channel_idx = run.calls[1].meta_row.channel_idx
    /\ run.calls[2].meta_row.channel_idx # run.calls[1].meta_row.channel_idx
    /\ run.calls[3].meta_row.time_idx = 1
    /\ run.calls[2].meta_row.slice_idx = 2

\* the t, p and z parts that parse_sms_name reads in a file name
SmsIndexParts(file_name) ==
    LET parts == split(SubSeq(file_name, 1, Len(file_name) - 4), "_")
        n == Len(parts)
    IN {SubSeq(parts[i], 1, 1) : i \in {j \in 1..n : j >= 2 /\ j > n - 3}}

LacksIndexPart(file_name) ==
    \E letter \in {"t", "p", "z"} : letter \notin SmsIndexParts(file_name)

\* C23: a folder ingestion in which a file name lacks its t, p or z part
\* ends in an error and gives no frame rows and no global metadata.
C23_MissingIndexAborts ==
    (/\ last.op = "sms_folder_get_frames_and_metadata"
     /\ \E i \in DOMAIN last.files : LacksIndexPart(last.files[i]))
        => /\ last.raised # "none"
           /\ last.frames_meta = << >>
           /\ IsNone(last.global_meta)

-----------------------------------------------------------------------------
(* images/tif_id_splitter.py: the splitter run on stacks of every shape up   *)
(* to MaxDim channels, slices, positions and frames (SpecTifId)             *)

\* a stack whose ImageDescription gives the four numbers; its pages are as
\* many as the description says, or one more or one less
SplitTifId ==
    /\ pc = "idle"
    /\ run.kind = "none"
    /\ \E c \in 1..MaxDim, z \in 1..MaxDim, p \in 1..MaxDim, t \in 1..MaxDim :
       \E nbr_pages \in {c * z * p * t - 1, c * z * p * t, c * z * p * t + 1} :
        LET acq == [name |-> "T", kind |-> "tif_id", height |-> 2, width |-> 3,
                    nbr_pages |-> nbr_pages, nbr_channels |-> c,
                    nbr_slices |-> z, nbr_timepoints |-> t,
                    nbr_positions |-> p]
            dir == <<FRAME_FOLDER_NAME, <<1>>>>
            res == tif_id_get_frames_and_metadata(s3, dir, acq, {})
        IN /\ s3' = res.store
           /\ run' = [kind |-> "tif_id", acq |-> acq]
           /\ last' = [op |-> "tif_id_get_frames_and_metadata",
                       raised |-> res.raised, frames_meta |-> res.frames_meta]
    /\ UNCHANGED <<localDirs, localFiles, db, pc, nops>>

NextTifId == SplitTifId

SpecTifId == Init /\ [][NextTifId]_vars

\* C24: a stack that the splitter has split has, for its page i (counted
\* from 0), channel i mod C, slice (i div C) mod Z, position (i div (C*Z))
\* mod P and time i div (C*Z*P), and the page is stored under the name of
\* these indices.
C24_ChannelFastestOrder ==
    (last.op = "tif_id_get_frames_and_metadata" /\ last.raised = "none") =>
        LET C == run.acq.nbr_channels
            Z == run.acq.nbr_slices
            P == run.acq.nbr_positions
        IN /\ Len(last.frames_meta) = run.acq.nbr_pages
           /\ \A n \in DOMAIN last.frames_meta :
                LET i == n - 1
                    row == last.frames_meta[n]
                IN /\ row.channel_idx = i % C
                   /\ row.slice_idx = (i \div C) % Z
                   /\ row.pos_idx = (i \div (C * Z)) % P
                   /\ row.time_idx = i \div (C * Z * P)
                   /\ row.time_idx < run.acq.nbr_timepoints
                   /\ s3_key(<<FRAME_FOLDER_NAME, <<1>>>>, row.file_name)
                         \in DOMAIN s3
                   /\ s3[s3_key(<<FRAME_FOLDER_NAME, <<1>>>>,
                                row.file_name)].data = <<"T", i>>

\* a stack of 2 channels, 3 slices, 2 positions and 2 frames: page 17 is
\* channel 1, slice 2, position 0, frame 1
C24_Witness ==
    /\ last.op = "tif_id_get_frames_and_metadata"
    /\ last.raised = "none"
    /\ run.acq.nbr_channels = 2
    /\ run.acq.nbr_slices = 3
    /\ run.acq.nbr_positions = 2
    /\ run.acq.nbr_timepoints = 2
    /\ Len(last.frames_meta) = 24
    /\ last.frames_meta[18].file_name = "im_c001_z002_t001_p000.png"

-----------------------------------------------------------------------------
(* database/db_operations.py: two ingestions side by side, each in its own   *)
(* session (SpecSessions).  A session reads what is committed when its       *)
(* query runs; its rows reach the tables when it commits.                    *)

Sessions == {1, 2}

IdleSession == [pc |-> "idle", serial |-> << >>, raised |-> "none"]

\* session_scope is entered and insert_frames runs its query for the
\* serial; rows of the serial make the assertion fail and the session roll
\* back
SessionQuery(s) ==
    /\ run.kind \in {"none", "sessions"}
    /\ nops < MaxOps
    /\ LET sess == IF run.kind = "none" THEN [x \in Sessions |-> IdleSession]
                   ELSE run.sess
       IN /\ sess[s].pc \in {"idle", "done"}
          /\ \E serial \in Serials :
               LET datasets == {d \in db.data_set :
                                  d.dataset_serial = serial}
               IN run' = [kind |-> "sessions",
                          sess |-> [sess EXCEPT ![s] =
                             IF Cardinality(datasets) # 0
                             THEN [pc |-> "done", serial |-> serial,
                                   raised |-> "Exception"]
                             ELSE [pc |-> "queried", serial |-> serial,
                                   raised |-> "none"]]]
    /\ nops' = nops + 1
    /\ last' = [op |-> "query", session |-> s, raised |-> "none"]
    /\ UNCHANGED <<s3, localDirs, localFiles, db, pc>>

\* the rest of insert_frames and the commit of session_scope: the rows get
\* their ids when they are written
SessionCommit(s) ==
    /\ run.kind = "sessions"
    /\ run.sess[s].pc = "queried"
    /\ \E commit_fails \in BOOLEAN :
        LET serial == run.sess[s].serial
            body == insert_frames_body(
                        db, {}, serial, TestFramesMeta,
                        <<"json", "json", "json", "json">>,
                        TestGlobalMeta(<<FRAME_FOLDER_NAME, serial>>),
                        get_parent(db, ParentPyNone))
            res == session_scope(db, body, commit_fails)
        IN /\ db' = res.db
           /\ run' = [run EXCEPT !.sess[s] = [pc |-> "done", serial |-> serial,
                                              raised |-> res.raised]]
           /\ last' = [op |-> "commit", session |-> s, raised |-> res.raised]
    /\ UNCHANGED <<s3, localDirs, localFiles, pc, nops>>

NextSessions == \E s \in Sessions : SessionQuery(s) \/ SessionCommit(s)

SpecSessions == Init /\ [][NextSessions]_vars

\* C25: of the sessions that ingest one serial side by side at most one
\* commits a Dataset row; the table never holds two datasets of one serial.
C25_OneCommitPerSerial ==
    \A serial \in Serials :
        Cardinality({d \in db.data_set : d.dataset_serial = serial}) <= 1

-----------------------------------------------------------------------------
(* filestorage/s3_storage.py: two uploaders that write the same frames to   *)
(* the same directory side by side (SpecUploaders).  Each list_objects_v2   *)
(* and each put_object is a step of its own.                                 *)

Uploaders == {1, 2}

UploadDir == <<FRAME_FOLDER_NAME, <<1>>>>

\* the frames of the acquisition: both uploaders hold the same images
UploadIms == [i \in 1..2 |-> [shape |-> <<2, 3>>, data |-> <<"U", i>>]]

\* (a variant whose write refuses a key that exists)
put_object_exclusive(store, key, im_bytes) ==
    IF key \in DOMAIN store
    THEN [store |-> store, raised |-> "ClientError"]
    ELSE [store |-> Put(store, key, im_bytes), raised |-> "none"]

\* s3_client.put_object(Bucket, Key, Body): the object is written, whether
\* the key exists or not
put_object(store, key, im_bytes) ==
    [store |-> Put(store, key, im_bytes), raised |-> "none"]

\* either uploader runs upload_im file after file, or upload_frames on the
\* two files
StartUploaders ==
    /\ run.kind = "none"
    /\ \E kinds \in [Uploaders -> {"upload_im", "upload_frames"}] :
         run' = [kind |-> "uploaders",
                 up |-> [u \in Uploaders |->
                           [kind |-> kinds[u], i |-> 1, keys |-> {},
                            written |-> {}, raised |-> "none"]]]
    /\ last' = NoCall
    /\ UNCHANGED <<s3, localDirs, localFiles, db, pc, nops>>

\* list_objects_v2(Prefix=key) for the next file: upload_im looks when the
\* file before is done, upload_frames looks for every file before it writes
UploaderCheck(u) ==
    /\ run.kind = "uploaders"
    /\ LET me == run.up[u]
           key == s3_key(UploadDir, TestNames[me.i])
       IN /\ me.raised = "none"
          /\ me.i <= Len(TestNames)
          /\ me.kind = "upload_im" => me.keys = {}
          /\ run' = [run EXCEPT !.up[u] =
                       [me EXCEPT !.i = me.i + 1,
                                  !.keys = IF KeyCountKey(s3, key) = 0
                                           THEN me.keys \cup {me.i}
                                           ELSE me.keys]]
          /\ last' = [op |-> "list_objects_v2", uploader |-> u,
                      raised |-> "none"]
    /\ UNCHANGED <<s3, localDirs, localFiles, db, pc, nops>>

\* put_object for a file that was not there when the uploader looked; the
\* threads of upload_frames write in any order once the loop is over
UploaderPut(u) ==
    /\ run.kind = "uploaders"
    /\ LET me == run.up[u] IN
       /\ me.raised = "none"
       /\ me.kind = "upload_frames" => me.i > Len(TestNames)
       /\ \E i \in me.keys :
            LET res == put_object(s3, s3_key(UploadDir, TestNames[i]),
                                  serialize_im(UploadIms[i], FRAME_FILE_FORMAT))
            IN /\ s3' = res.store
               /\ run' = [run EXCEPT !.up[u] =
                            [me EXCEPT !.keys = me.keys \ {i},
                                       !.written = me.written \cup {i},
                                       !.raised = res.raised]]
               /\ last' = [op |-> "put_object", uploader |-> u,
                           raised |-> res.raised]
    /\ UNCHANGED <<localDirs, localFiles, db, pc, nops>>

NextUploaders ==
    StartUploaders \/ \E u \in Uploaders : UploaderCheck(u) \/ UploaderPut(u)

SpecUploaders == Init /\ [][NextUploaders]_vars

UploaderDone(u) ==
    /\ run.up[u].i > Len(TestNames)
    /\ run.up[u].keys = {}

\* C26: however the checks and writes of two uploaders of the same frames
\* interleave, neither uploader raises, an object that is stored holds the
\* bytes of its frame, and when both are done every frame is stored.
C26_DuplicateWriteHarmless ==
    run.kind = "uploaders" =>
        /\ \A u \in Uploaders : run.up[u].raised = "none"
        /\ \A i \in DOMAIN TestNames :
              LET key == s3_key(UploadDir, TestNames[i]) IN
              /\ key \in DOMAIN s3 =>
                    s3[key] = serialize_im(UploadIms[i], FRAME_FILE_FORMAT)
              /\ (\A u \in Uploaders : UploaderDone(u)) => key \in DOMAIN s3

\* both uploaders found the first frame missing and both wrote it
C26_Witness ==
    /\ run.kind = "uploaders"
    /\ \A u \in Uploaders : UploaderDone(u) /\ 1 \in run.up[u].written
    /\ run.up[1].kind = "upload_im"
    /\ run.up[2].kind = "upload_frames"
    /\ s3_key(UploadDir, TestNames[1]) \in DOMAIN s3

-----------------------------------------------------------------------------
(* filestorage/data_storage.py: get_stack_from_meta step by step            *)
(* (SpecFetch).  The fetches of executor.map end in any order; the with     *)
(* block ends when all have ended; then the fill loop runs row by row.      *)
(* A frames_meta table is a sequence of [label, row]: iterrows gives the    *)
(* label of a row, not its place.                                            *)

Labelled(labels, rows) ==
    [i \in DOMAIN rows |-> [label |-> labels[i], row |-> rows[i]]]

\* the table of a query (labels reset to 0, 1, ...), the channel-1 rows of a
\* query with labels reset, the same rows as a caller's selection leaves
\* them (labels 1 and 3), and three rows as a caller's sort leaves them
FetchTables ==
    {Labelled(<<0, 1, 2, 3>>, GridMeta),
     Labelled(<<0, 1>>, <<GridMeta[2], GridMeta[4]>>),
     Labelled(<<1, 3>>, <<GridMeta[2], GridMeta[4]>>),
     Labelled(<<2, 0, 1>>, <<GridMeta[3], GridMeta[1], GridMeta[2]>>)}

FetchDir == <<FRAME_FOLDER_NAME, <<1>>>>

TableRows(table) == [i \in DOMAIN table |-> table[i].row]

\* (a variant that lists the results as the workers end)
pool_result_as_completed(results, order) ==
    [i \in DOMAIN order |-> results[order[i]]]

\* list(executor.map(get_im, file_names)): the results in the order of the
\* file names, whatever the order in which the workers ended
pool_result(results, order) == [i \in DOMAIN order |-> results[i]]

\* the frames of a dataset are stored before any stack is asked for
StoreStack ==
    /\ run.kind = "none"
    /\ UploadStack

\* make_stack_from_meta and the submission of one fetch per file name
StartGetStack ==
    /\ run.kind = "none"
    /\ \E table \in FetchTables :
        LET rows == TableRows(table)
            global_meta == set_global_meta(FetchDir, [height |-> 2, width |-> 3],
                                           rows, Len(rows))
            made == make_stack_from_meta(global_meta, rows)
            coords == (0..(made.stack_shape[4] - 1))
                        \X (0..(made.stack_shape[5] - 1))
                        \X (0..(made.stack_shape[6] - 1))
                        \X (0..(made.stack_shape[7] - 1))
        IN run' = [kind |-> "fetch", table |-> table, phase |-> "fetching",
                   made |-> made, order |-> << >>,
                   results |-> [i \in DOMAIN table |-> None],
                   im_list |-> << >>, row |-> 1,
                   planes |-> [c \in coords |-> "zeros"], raised |-> "none"]
    /\ last' = [op |-> "get_stack_from_meta", raised |-> "none"]
    /\ UNCHANGED <<s3, localDirs, localFiles, db, pc, nops>>

\* a worker ends get_im for one of the file names
FetchComplete ==
    /\ run.kind = "fetch"
    /\ run.phase = "fetching"
    /\ \E i \in DOMAIN run.table \ Range(run.order) :
         run' = [run EXCEPT
                   !.order = Append(@, i),
                   !.results[i] = s3_get_im(s3, FetchDir,
                                            run.table[i].row.file_name)]
    /\ UNCHANGED <<s3, localDirs, localFiles, db, pc, nops, last>>

\* the with block is left when every worker has ended; list(pool_result)
\* raises what the first failed fetch raised
JoinFetches ==
    /\ run.kind = "fetch"
    /\ run.phase = "fetching"
    /\ Len(run.order) = Len(run.table)
    /\ LET im_list == pool_result(run.results, run.order) IN
       IF \E i \in DOMAIN im_list : im_list[i].raised # "none"
       THEN /\ run' = [run EXCEPT !.phase = "done", !.raised = "ClientError"]
            /\ last' = [op |-> "get_stack_from_meta", raised |-> "ClientError"]
       ELSE /\ run' = [run EXCEPT !.phase = "filling",
                                  !.im_list = [i \in DOMAIN im_list |->
                                                 im_list[i].im]]
            /\ UNCHANGED last
    /\ UNCHANGED <<s3, localDirs, localFiles, db, pc, nops>>

\* one turn of the fill loop: for im_nbr, row in frames_meta.iterrows() the
\* plane of the row's indices takes im_list[im_nbr]
FillRow ==
    /\ run.kind = "fetch"
    /\ run.phase = "filling"
    /\ run.row <= Len(run.table)
    /\ LET im_nbr == run.table[run.row].label
           row == run.table[run.row].row
           unique_ids == run.made.unique_ids
           c == <<slot_of(unique_ids.slices, row.slice_idx),
                  slot_of(unique_ids.channels, row.channel_idx),
                  slot_of(unique_ids.times, row.time_idx),
                  slot_of(unique_ids.pos, row.pos_idx)>>
       IN IF im_nbr + 1 \notin DOMAIN run.im_list
          THEN /\ run' = [run EXCEPT !.phase = "done", !.raised = "IndexError"]
               /\ last' = [op |-> "get_stack_from_meta",
                           raised |-> "IndexError"]
          ELSE /\ run' = [run EXCEPT
                            !.row = @ + 1,
                            !.planes[c] =
                                atleast_3d(run.im_list[im_nbr + 1]).data]
               /\ UNCHANGED last
    /\ UNCHANGED <<s3, localDirs, localFiles, db, pc, nops>>

\* squeeze_stack and the return
ReturnStack ==
    /\ run.kind = "fetch"
    /\ run.phase = "filling"
    /\ run.row > Len(run.table)
    /\ LET squeezed == squeeze_stack(run.made.stack_shape) IN
       /\ run' = [run EXCEPT !.phase = "done"]
       /\ last' = [op |-> "get_stack_from_meta", raised |-> "none",
                   shape |-> squeezed.shape, dim_str |-> squeezed.dim_str,
                   planes |-> run.planes]
    /\ UNCHANGED <<s3, localDirs, localFiles, db, pc, nops>>

NextFetch ==
    StoreStack \/ StartGetStack \/ FetchComplete \/ JoinFetches \/ FillRow
        \/ ReturnStack

SpecFetch == Init /\ [][NextFetch]_vars

-----------------------------------------------------------------------------
(* Properties of the stepwise reassembly (SpecFetch) *)

\* the pixels of the frame stored for a row (see StackIm)
OwnPixels(row) == <<row.channel_idx, row.slice_idx>>

\* the slot of a row in the stack: the ranks of its indices
OwnSlot(table, row) ==
    LET rows == Range(TableRows(table)) IN
    <<Cardinality({r.slice_idx : r \in rows} \cap 0..(row.slice_idx - 1)),
      Cardinality({r.channel_idx : r \in rows} \cap 0..(row.channel_idx - 1)),
      Cardinality({r.time_idx : r \in rows} \cap 0..(row.time_idx - 1)),
      Cardinality({r.pos_idx : r \in rows} \cap 0..(row.pos_idx - 1))>>

DefaultLabels(table) == \A i \in DOMAIN table : table[i].label = i - 1

\* C27: in whatever order the fetches end, no plane is written while a
\* fetch is outstanding, the i-th image of the list is the image of the i-th
\* file name, and the stack returned for a table of a query holds at the
\* slot of every row the pixels of that row's frame.
C27_FetchOrderIrrelevant ==
    run.kind = "fetch" =>
        /\ (\E c \in DOMAIN run.planes : run.planes[c] # "zeros")
              => Len(run.order) = Len(run.table)
        /\ \A i \in DOMAIN run.im_list :
              run.im_list[i].data = OwnPixels(run.table[i].row)
        /\ (/\ run.phase = "done"
            /\ run.raised = "none"
            /\ DefaultLabels(run.table))
              => \A i \in DOMAIN run.table :
                    last.planes[OwnSlot(run.table, run.table[i].row)]
                        = OwnPixels(run.table[i].row)

\* the four fetches of the grid ended last file first, and the stack was
\* returned
C27_Witness ==
    /\ run.kind = "fetch"
    /\ run.phase = "done"
    /\ run.raised = "none"
    /\ run.order = <<4, 3, 2, 1>>
    /\ last.planes[<<1, 1, 0, 0>>] = <<1, 7>>

\* C30: whatever the labels of the table, the plane that the fill loop has
\* written for a row holds the pixels of the frame of that row's file name.
C30_PlaneOfOwnFile ==
    run.kind = "fetch" =>
        \A k \in DOMAIN run.table :
            k < run.row =>
                run.planes[OwnSlot(run.table, run.table[k].row)]
                    = OwnPixels(run.table[k].row)

-----------------------------------------------------------------------------
(* images/ometif_splitter.py: the position filter of a folder of ome.tif    *)
(* files (SpecPositions)                                                     *)

\* label in s, for two strings
str_in(label, s) ==
    \E i \in 1..(Len(s) - Len(label) + 1) :
        SubSeq(s, i, i + Len(label) - 1) = label

\* next((s for s in glob_paths if label in s), None)
first_with_label(label, glob_paths) ==
    IF \E i \in DOMAIN glob_paths : str_in(label, glob_paths[i])
    THEN glob_paths[CHOOSE i \in DOMAIN glob_paths :
                      /\ str_in(label, glob_paths[i])
                      /\ \A j \in 1..(i - 1) : ~str_in(label, glob_paths[j])]
    ELSE None

\* the loop of _validate_file_paths over the position list
RECURSIVE validate_loop(_, _, _)
validate_loop(position_list, positions, glob_paths) ==
    IF Len(position_list) = 0 THEN [file_paths |-> << >>, raised |-> "none"]
    ELSE
    LET label == Head(position_list)
        number == int(SubSeq(label, 4, Len(label)))
        file_path == first_with_label(label, glob_paths)
        rest == validate_loop(Tail(position_list), positions, glob_paths)
    IN IF number.raised # "none"
       THEN [file_paths |-> << >>, raised |-> number.raised]
       ELSE IF rest.raised # "none" THEN rest
       ELSE IF number.value \in positions /\ ~IsNone(file_path)
       THEN [file_paths |-> <<file_path>> \o rest.file_paths,
             raised |-> "none"]
       ELSE rest

\* OmeTiffSplitter._validate_file_paths
validate_file_paths(position_list, positions, glob_paths) ==
    LET res == validate_loop(position_list, positions, glob_paths) IN
    IF res.raised # "none" THEN res
    ELSE IF Len(res.file_paths) > 0 THEN res
    ELSE [file_paths |-> << >>, raised |-> "AssertionError"]

\* InitialPositionList of the test, and one with a position 10
PositionLists == {<<"Pos1", "Pos3">>, <<"Pos1", "Pos3", "Pos10">>}

PositionFile(label) == "test_" \o label \o ".ome.tif"

\* what glob finds: some of the position files, in any order
GlobPaths ==
    LET files == {PositionFile(l) : l \in {"Pos1", "Pos3", "Pos10"}} IN
    {s \in UNION {[1..n -> files] : n \in 1..3} :
        \A i, j \in DOMAIN s : i # j => s[i] # s[j]}

ValidateFilePaths ==
    /\ pc = "idle"
    /\ \E position_list \in PositionLists, glob_paths \in GlobPaths,
          positions \in (SUBSET {0, 1, 3, 10}) \ {{}} :
        LET res == validate_file_paths(position_list, positions, glob_paths)
        IN last' = [op |-> "validate_file_paths",
                    position_list |-> position_list, positions |-> positions,
                    glob_paths |-> glob_paths, file_paths |-> res.file_paths,
                    raised |-> res.raised]
    /\ UNCHANGED <<s3, localDirs, localFiles, db, pc, run, nops>>

NextPositions == ValidateFilePaths

SpecPositions == Init /\ [][NextPositions]_vars

\* the labels of the list whose position is asked for and whose own file is
\* in the folder
PresentLabels ==
    {l \in Range(last.position_list) :
        /\ \E p \in last.positions : l = "Pos" \o Str(p)
        /\ PositionFile(l) \in Range(last.glob_paths)}

\* C29: the position filter returns the files labelled with exactly the
\* requested positions that are in the folder, no file of another position,
\* and raises when no such file is there.
C29_ExactPositionFiles ==
    last.op = "validate_file_paths" =>
        IF PresentLabels = {}
        THEN last.raised = "AssertionError"
        ELSE /\ last.raised = "none"
             /\ Range(last.file_paths) = {PositionFile(l) : l \in PresentLabels}

====
